---- MODULE Spec2Model ----
(***************************************************************************)
(* MAVLinkClient (uav_system/communication/mavlink/mavlink_client.py):     *)
(* connection life cycle, the telemetry ingestion thread, set_mode,        *)
(* get_location, autonomous_takeoff, autonomous_land and emergency_stop,   *)
(* run against a vehicle that feeds one inbound message queue.             *)
(*                                                                         *)
(* Two threads read that queue: the caller's thread (the public methods)   *)
(* and the telemetry thread (_telemetry_loop).  A recv_match with a type   *)
(* filter drops every message of another type that it pulls; a blocking    *)
(* wait ends with None only when nothing is queued.  Time is not modelled: *)
(* a deadline may lapse whenever the awaited traffic is absent.            *)
(*                                                                         *)
(* Also modelled: the older client (Arayuz Deneme3/mavlink_client.py, its  *)
(* connect, get_location and takeoff), UAVPlane.takeoff of                 *)
(* flight_control/plane_controller.py with this client attached, and the   *)
(* waypoint navigator.                                                     *)
(***************************************************************************)
EXTENDS Integers, Sequences, FiniteSets, TLC

VARIABLES
  connected,      \* BaseProtocol._connected
  running,        \* BaseComponent._running
  connection,     \* self.connection: "None", or the state of the transport it names
  orphans,        \* transports opened by connect() that no handle names any more and nobody closed
  tpc,            \* self.telemetry_thread and its position in _telemetry_loop
  alive,          \* the telemetry threads that were started and have not left the loop
  loopFault,      \* what the loop last polled: "none", a "closed" transport or a "cleared" handle
  telemetry_data, \* self.telemetry_data (the fields the operations below can tell apart)
  stale,          \* time.time() - self.last_heartbeat exceeds every timeout of the client
  link,           \* messages the vehicle sent that no recv_match has pulled yet
  coop,           \* the vehicle answers every request (a simulator) / sends anything
  vehicle,        \* the answering vehicle: its mode, arm state, mission size, replies due
  op,             \* the public method running, or the one that returned last
  prevCall,       \* the call before: "disconnect", a take-off that failed at "mode", "other"
  pc,             \* the caller thread's position
  cont,           \* where set_mode / get_location return to
  modeArg,        \* set_mode's mode_name
  subResult,      \* the value the last set_mode / arm_disarm / get_location returned
  retries,        \* get_location's retries, the AUTO verification's attempt index
  result,         \* the value the last public method returned
  lastError,      \* the step named by the last logger.error of the running method
  log,            \* what the running method sent, acted on, joined and closed, in order
  earlyAck,       \* the mission-request wait pulled and dropped a MISSION_ACK
  system_id,      \* self.system_id
  component_id,   \* self.component_id
  initialized,    \* BaseComponent._initialized
  handlers,       \* self.message_handlers still holds the default handlers
  tmsg,           \* _telemetry_loop's msg while _process_message runs on it
  tstep,          \* the assignment of the handlers that comes next for tmsg
  snapshot,       \* the record the last get_telemetry_data() returned
  aliased,        \* that record is the dict self.telemetry_data itself
  broken,         \* the transport raises: on every send, on any receive
  nav             \* the waypoint navigator: index, previous distance, last input and result

vars == <<connected, running, connection, orphans, tpc, alive, loopFault, telemetry_data,
          stale, link, coop, vehicle, op, prevCall, pc,
          cont, modeArg, subResult, retries, result, lastError, log, earlyAck,
          system_id, component_id, initialized, handlers, tmsg, tstep, snapshot, aliased, broken, nav>>

clientVars  == <<connected, running, connection, orphans>>
threadVars  == <<tpc, alive, loopFault, telemetry_data>>
vehicleVars == <<vehicle>>
callVars    == <<op, prevCall, pc, cont, modeArg, subResult, retries, result,
                 lastError, log, earlyAck>>
idVars      == <<system_id, component_id>>
auxVars     == <<system_id, component_id, initialized, handlers, tmsg, tstep, snapshot, aliased, broken, nav>>

----------------------------------------------------------------------------
(* Bounds of the model *)

MaxLink == 1        \* messages queued on the link
MaxOrphans == 1     \* transports leaked by connect() over an open one
MaxReading == 1     \* distinct readings a telemetry stream carries
MaxGrid == 20       \* the positions fed to the navigator lie on 0..MaxGrid
MaxAttempts == 2    \* receive attempts counted in a loop that has no counter of its own

(* The arguments of the calls: autonomous_takeoff(altitude) and
   autonomous_land(lon, lat, current_alt, cruise_alt); degrees in units of 0.0001 *)

TakeoffAlt == 50
LandLat == 1
LandLon == 2
CurrentAlt == 40
CruiseAlt == 30

(* Program constants *)

ApproachOffset == 5     \* autonomous_land: lat + 0.0005, lon + 0.0005

MaxRetries == 10        \* get_location: max_retries
VerifyAttempts == 10    \* autonomous_takeoff: for _ in range(10)
MAV_MISSION_ACCEPTED == 0
MAV_MISSION_ERROR == 1

----------------------------------------------------------------------------
(* The waypoint navigator: positions are <<lat, lon, alt>> on a grid *)

Waypoints == << <<0, 0, 10>>, <<10, 0, 10>>, <<20, 0, 10>> >>
Threshold == 5      \* fly_waypoints(self, waypoints, threshold=5.0)
NavPositions == {<<x, 0, z>> : x \in 0..MaxGrid, z \in {10, 16}}

\* the square of the Euclidean distance, lat/lon taken as planar
Dist2(p, q) ==
  (p[1] - q[1]) * (p[1] - q[1]) + (p[2] - q[2]) * (p[2] - q[2])
    + (p[3] - q[3]) * (p[3] - q[3])

\* index: the current target (past the list: all consumed); prev: the squared distance
\* of the previous sample, -1 before the first; ret: the index returned, 0 for null
NavInit == [index |-> 1, prev |-> -1, pos |-> <<0, 0, 0>>, ret |-> 0]

\* faulty variant: no overshoot heuristic, the index advances on the threshold only
update_threshold_only(n, pos) ==
  IF n.index > Len(Waypoints) THEN [n EXCEPT !.pos = pos, !.ret = 0]
  ELSE LET d == Dist2(pos, Waypoints[n.index])
       IN  [index |-> IF d <= Threshold * Threshold THEN n.index + 1 ELSE n.index,
            prev |-> d, pos |-> pos, ret |-> n.index]

\* update(currentPosition): the target measured against, or null; the index advances
\* within the threshold, or when the distance grew since the previous sample
update(n, pos) ==
  IF n.index > Len(Waypoints) THEN [n EXCEPT !.pos = pos, !.ret = 0]
  ELSE LET d == Dist2(pos, Waypoints[n.index])
       IN  [index |-> IF d <= Threshold * Threshold \/ (n.prev # -1 /\ d > n.prev)
                        THEN n.index + 1 ELSE n.index,
            prev |-> d, pos |-> pos, ret |-> n.index]

----------------------------------------------------------------------------
(* Messages *)

\* x, y, z: the position of a mission item (lat, lon in 1e-7 degrees; altitude);
\* lacks: the store field whose value the message cannot give (an attribute it does
\* not have, a system_status outside enums['MAV_STATE']), "" for a well-formed message
Msg(t, s, n, b) ==
  [type |-> t, s |-> s, n |-> n, b |-> b, x |-> 0, y |-> 0, z |-> 0, lacks |-> ""]

\* a HEARTBEAT of the system (and component) src; n carries the source ids
HEARTBEAT_FROM(src, mode, armed) == Msg("HEARTBEAT", mode, src, armed)
\* the heartbeat of the vehicle the client talks to, system 1
HEARTBEAT(mode, armed) == HEARTBEAT_FROM(1, mode, armed)
\* the position stream of a vehicle that sits at 0/0
GLOBAL_POSITION_INT    == Msg("GLOBAL_POSITION_INT", "", 0, FALSE)
\* the k-th message of one of the telemetry streams; n carries its reading
Telemetry(type, k)     == Msg(type, "", k, FALSE)
MISSION_REQUEST(seq)   == Msg("MISSION_REQUEST", "", seq, FALSE)
MISSION_ACK(status)    == Msg("MISSION_ACK", "", status, FALSE)

\* what the client sends
SET_MODE(mode)         == Msg("SET_MODE", mode, 0, FALSE)
ARM_DISARM(arm)        == Msg("COMMAND_LONG", "COMPONENT_ARM_DISARM", IF arm THEN 1 ELSE 0, FALSE)
\* MAVLinkClient.takeoff: send_command_long(MAV_CMD_NAV_TAKEOFF, 0, 0, 0, 0, 0, 0, altitude)
NAV_TAKEOFF_CMD(alt)   == [Msg("COMMAND_LONG", "NAV_TAKEOFF", 0, FALSE) EXCEPT !.z = alt]
MISSION_CLEAR_ALL      == Msg("MISSION_CLEAR_ALL", "", 0, FALSE)
MISSION_COUNT(n)       == Msg("MISSION_COUNT", "", n, FALSE)
MISSION_ITEM_INT(seq, cmd, current) == Msg("MISSION_ITEM_INT", cmd, seq, current = 1)

\* int(x * 1e7), for a latitude or longitude x given in units of 0.0001 degree
ToE7(x) == x * 1000
\* mission_item_int_send(..., seq, frame, command, current, ..., int(x * 1e7), int(y * 1e7), z)
ItemAt(seq, cmd, current, x, y, z) ==
  [MISSION_ITEM_INT(seq, cmd, current) EXCEPT !.x = ToE7(x), !.y = ToE7(y), !.z = z]

\* self.connection.mode_mapping()
mode_mapping == {"GUIDED", "AUTO", "RTL"}
\* the names a caller may pass to set_mode
ModeNames == mode_mapping \cup {"LOITER_X"}

\* the types _setup_message_handlers registers a handler for
HandlerTypes == {"HEARTBEAT", "SYS_STATUS", "GPS_RAW_INT", "ATTITUDE",
                 "GLOBAL_POSITION_INT", "VFR_HUD"}

\* heartbeat.get_srcSystem(), heartbeat.get_srcComponent()
get_srcSystem(m)    == m.n
get_srcComponent(m) == m.n

\* what an arbitrary vehicle may put on the link
VehicleMsgs ==
  {HEARTBEAT(m, a) : m \in mode_mapping, a \in BOOLEAN}
    \cup {GLOBAL_POSITION_INT}
    \cup {MISSION_REQUEST(i) : i \in 0..1}
    \cup {MISSION_ACK(t) : t \in {MAV_MISSION_ACCEPTED, MAV_MISSION_ERROR}}

\* the heartbeats of a second system that shares the link
ForeignMsgs == {HEARTBEAT_FROM(2, m, FALSE) : m \in {"GUIDED", "AUTO"}}

\* message types the vehicle repeats on its own
Periodic == {"HEARTBEAT", "GLOBAL_POSITION_INT"}

Tx(m)   == [d |-> "tx", m |-> m]
Rx(m)   == [d |-> "rx", m |-> m]
Sys(w)  == [d |-> "sys", m |-> Msg(w, "", 0, FALSE)]

Has(e)      == \E i \in 1..Len(log) : log[i] = e
Pos(e)      == CHOOSE i \in 1..Len(log) : log[i] = e
Before(a, b) == Has(a) /\ Has(b) /\ \E i, j \in 1..Len(log) : i < j /\ log[i] = a /\ log[j] = b
Count(e)    == Cardinality({i \in 1..Len(log) : log[i] = e})
SentTypes   == {log[i].m.type : i \in {j \in 1..Len(log) : log[j].d = "tx"}}

----------------------------------------------------------------------------
(* reset_telemetry_data: the defaults *)

\* slow: the vehicle's answers may take longer than any wait and overtake each other
VehicleAtRest ==
  [mode |-> "GUIDED", armed |-> FALSE, count |-> 0, pend |-> <<>>, slow |-> FALSE]
VehicleLate == [VehicleAtRest EXCEPT !.slow = TRUE]

reset_telemetry_data ==
  [lat |-> 0, lon |-> 0, altitude |-> 0, roll |-> 0, pitch |-> 0, yaw |-> 0,
   airspeed |-> 0, groundspeed |-> 0, heading |-> 0, throttle |-> 0,
   battery_level |-> 0, battery_voltage |-> 0, armed |-> FALSE, armable |-> FALSE,
   flight_mode |-> "UNKNOWN", gps_fix |-> 0, satellites |-> 0, last_heartbeat |-> 0,
   system_status |-> "UNKNOWN"]

NoMsg == Msg("None", "", 0, FALSE)

Init ==
  /\ connected = FALSE /\ running = FALSE
  /\ connection = "None" /\ orphans = 0
  /\ tpc = "none" /\ alive = 0 /\ loopFault = "none"
  /\ telemetry_data = reset_telemetry_data
  /\ stale = FALSE
  /\ link = <<>>
  /\ coop = FALSE
  /\ vehicle = VehicleAtRest
  /\ op = "none" /\ prevCall = "other" /\ pc = "done" /\ cont = "none"
  /\ modeArg = "none" /\ subResult = FALSE /\ retries = 0
  /\ result = FALSE /\ lastError = "none" /\ log = <<>> /\ earlyAck = FALSE
  /\ system_id = 0 /\ component_id = 0
  /\ initialized = FALSE /\ handlers = TRUE
  /\ tmsg = NoMsg /\ tstep = 0
  /\ snapshot = reset_telemetry_data /\ aliased = FALSE
  /\ broken = FALSE
  /\ nav = NavInit

----------------------------------------------------------------------------
(* The vehicle and the link *)

AnyOpen == connection = "open" \/ orphans > 0

\* an arbitrary vehicle: any message, any time
VehicleEmit ==
  /\ ~coop /\ AnyOpen /\ Len(link) < MaxLink
  /\ \E m \in VehicleMsgs : link' = Append(link, m)
  /\ UNCHANGED <<clientVars, threadVars, stale, coop, auxVars, vehicleVars, callVars>>

\* another system on the same link sends its heartbeat
ForeignEmit ==
  /\ ~coop /\ AnyOpen /\ Len(link) < MaxLink
  /\ \E m \in ForeignMsgs : link' = Append(link, m)
  /\ UNCHANGED <<clientVars, threadVars, stale, coop, auxVars, vehicleVars, callVars>>

\* the heartbeat and the position stream of a vehicle that moves
PositionMsgs ==
  {Telemetry("GLOBAL_POSITION_INT", k) : k \in 1..MaxReading}
    \cup {HEARTBEAT("GUIDED", FALSE)}

PositionStream ==
  /\ ~coop /\ AnyOpen /\ Len(link) < MaxLink
  /\ \E m \in PositionMsgs : link' = Append(link, m)
  /\ UNCHANGED <<clientVars, threadVars, stale, coop, auxVars, vehicleVars, callVars>>

\* messages a handler cannot process to its end
MalformedMsgs ==
  {[HEARTBEAT("AUTO", TRUE) EXCEPT !.lacks = "system_status"],
   [Telemetry("GLOBAL_POSITION_INT", 1) EXCEPT !.lacks = "heading"]}

MalformedStream ==
  /\ ~coop /\ AnyOpen /\ Len(link) < MaxLink
  /\ \E m \in MalformedMsgs : link' = Append(link, m)
  /\ UNCHANGED <<clientVars, threadVars, stale, coop, auxVars, vehicleVars, callVars>>

\* the other telemetry streams, and a message type no handler is registered for
StreamMsgs ==
  {Telemetry(t, k) : t \in HandlerTypes \ {"HEARTBEAT", "GLOBAL_POSITION_INT"},
                     k \in 1..MaxReading}
    \cup {HEARTBEAT("AUTO", TRUE), Telemetry("STATUSTEXT", 1)}

OtherStreams ==
  /\ ~coop /\ AnyOpen /\ Len(link) < MaxLink
  /\ \E m \in StreamMsgs : link' = Append(link, m)
  /\ UNCHANGED <<clientVars, threadVars, stale, coop, auxVars, vehicleVars, callVars>>

\* an answering vehicle: its 1 Hz heartbeat, its position stream, its replies
VehicleHeartbeat ==
  /\ coop /\ AnyOpen /\ Len(link) < MaxLink
  /\ link' = Append(link, HEARTBEAT(vehicle.mode, vehicle.armed))
  /\ UNCHANGED <<clientVars, threadVars, stale, coop, auxVars, vehicleVars, callVars>>

VehiclePosition ==
  /\ coop /\ AnyOpen /\ Len(link) < MaxLink
  /\ link' = Append(link, GLOBAL_POSITION_INT)
  /\ UNCHANGED <<clientVars, threadVars, stale, coop, auxVars, vehicleVars, callVars>>

VehicleReply ==
  /\ coop /\ AnyOpen /\ Len(link) < MaxLink /\ vehicle.pend # <<>>
  /\ link' = Append(link, Head(vehicle.pend))
  /\ vehicle' = [vehicle EXCEPT !.pend = Tail(@)]
  /\ UNCHANGED <<clientVars, threadVars, stale, coop, auxVars, callVars>>

\* a delayed answer: one that is due arrives after a later one
VehicleReplyLate ==
  /\ coop /\ vehicle.slow /\ AnyOpen /\ Len(link) < MaxLink
  /\ \E i \in 2..Len(vehicle.pend) :
       /\ link' = Append(link, vehicle.pend[i])
       /\ vehicle' = [vehicle EXCEPT !.pend = SubSeq(@, 1, i - 1) \o SubSeq(@, i + 1, Len(@))]
  /\ UNCHANGED <<clientVars, threadVars, stale, coop, auxVars, callVars>>

\* the answering vehicle after a message of the client (the mission protocol's replies)
VehicleGets(v, m) ==
  IF ~coop THEN v
  ELSE CASE m.type = "SET_MODE" -> [v EXCEPT !.mode = m.s]
         [] m.type = "COMMAND_LONG" -> [v EXCEPT !.armed = (m.n = 1)]
         [] m.type = "MISSION_CLEAR_ALL" ->
              [v EXCEPT !.count = 0, !.pend = Append(@, MISSION_ACK(MAV_MISSION_ACCEPTED))]
         [] m.type = "MISSION_COUNT" ->
              [v EXCEPT !.count = m.n, !.pend = Append(@, MISSION_REQUEST(0))]
         [] m.type = "MISSION_ITEM_INT" ->
              [v EXCEPT !.pend = Append(@, IF m.n + 1 < v.count
                                             THEN MISSION_REQUEST(m.n + 1)
                                             ELSE MISSION_ACK(MAV_MISSION_ACCEPTED))]
         [] OTHER -> v

\* the client sends the messages ms, in order
Send(ms) ==
  /\ log' = log \o [i \in 1..Len(ms) |-> Tx(ms[i])]
  /\ vehicle' = IF Len(ms) = 1 THEN VehicleGets(vehicle, ms[1])
                ELSE IF Len(ms) = 2 THEN VehicleGets(VehicleGets(vehicle, ms[1]), ms[2])
                ELSE VehicleGets(VehicleGets(VehicleGets(vehicle, ms[1]), ms[2]), ms[3])

\* a blocking wait for `type` may end with None: when the receives raise; from an
\* answering vehicle when nothing is queued, due or periodic; from an arbitrary one
\* at any time (what is queued then came after the deadline)
TimeoutOK(type) ==
  \/ broken
  \/ ~coop
  \/ vehicle.slow
  \/ /\ link = <<>>
     /\ type \notin Periodic
     /\ \A i \in 1..Len(vehicle.pend) : vehicle.pend[i].type # type

\* the transport fails: from now on every send raises and any receive may
TransportBreaks ==
  /\ ~broken /\ connection = "open"
  /\ broken' = TRUE
  /\ UNCHANGED <<clientVars, threadVars, stale, link, coop, vehicleVars, callVars,
                 idVars, initialized, handlers, tmsg, tstep, snapshot, aliased, nav>>

\* time passes and no heartbeat is processed
Tick ==
  /\ ~stale
  /\ stale' = TRUE
  /\ UNCHANGED <<clientVars, threadVars, link, coop, auxVars, vehicleVars, callVars>>

----------------------------------------------------------------------------
(* _telemetry_loop, _process_message and the handlers *)

\* the fields of a message as the vehicle encodes reading k: degrees * 1e7,
\* millimetres, centidegrees, millivolts; the others plain
Wire(m, f) ==
  CASE f \in {"lat", "lon"} -> m.n * 10000000
    [] f \in {"alt", "voltage_battery"} -> m.n * 1000
    [] f = "hdg" -> m.n * 100
    [] OTHER -> m.n

\* faulty variant: _handle_vfr_hud also stores the altitude that VFR_HUD carries
HandlerFields_vfr_sets_altitude(type) ==
  CASE type = "HEARTBEAT" -> <<"armed", "flight_mode", "system_status">>
    [] type = "SYS_STATUS" -> <<"battery_level", "battery_voltage">>
    [] type = "GPS_RAW_INT" -> <<"gps_fix", "satellites">>
    [] type = "ATTITUDE" -> <<"roll", "pitch", "yaw">>
    [] type = "GLOBAL_POSITION_INT" -> <<"lat", "lon", "altitude", "heading">>
    [] type = "VFR_HUD" -> <<"airspeed", "groundspeed", "altitude", "throttle">>
    [] OTHER -> <<>>

\* the assignments of each _handle_* method, in program order
HandlerFields(type) ==
  CASE type = "HEARTBEAT" -> <<"armed", "flight_mode", "system_status">>
    [] type = "SYS_STATUS" -> <<"battery_level", "battery_voltage">>
    [] type = "GPS_RAW_INT" -> <<"gps_fix", "satellites">>
    [] type = "ATTITUDE" -> <<"roll", "pitch", "yaw">>
    [] type = "GLOBAL_POSITION_INT" -> <<"lat", "lon", "altitude", "heading">>
    [] type = "VFR_HUD" -> <<"airspeed", "groundspeed", "throttle">>
    [] OTHER -> <<>>

\* the right-hand side of the assignment to field f
FieldValue(m, f) ==
  CASE f = "armed" -> m.b
    [] f = "flight_mode" -> m.s
    [] f = "system_status" -> IF m.b THEN "MAV_STATE_ACTIVE" ELSE "MAV_STATE_STANDBY"
    [] f = "lat" -> Wire(m, "lat") \div 10000000
    [] f = "lon" -> Wire(m, "lon") \div 10000000
    [] f = "altitude" -> Wire(m, "alt") \div 1000
    [] f = "heading" -> Wire(m, "hdg") \div 100
    [] f = "battery_level" -> Wire(m, "battery_remaining")
    [] f = "battery_voltage" -> Wire(m, "voltage_battery") \div 1000
    [] f = "gps_fix" -> Wire(m, "fix_type")
    [] f = "satellites" -> Wire(m, "satellites_visible")
    [] OTHER -> Wire(m, f)

\* faulty variant: _handle_attitude adds the new angles to the stored ones
Assign_accumulates(td, m, f) ==
  [td EXCEPT ![f] = IF m.type = "ATTITUDE" THEN td[f] + FieldValue(m, f)
                    ELSE FieldValue(m, f)]

\* self.telemetry_data[f] = ...
Assign(td, m, f) == [td EXCEPT ![f] = FieldValue(m, f)]

\* _process_message: a HEARTBEAT goes to _handle_heartbeat, and then every message to
\* the handler registered for its type: the assignments it makes, in order
\* the right-hand side of the first assignment that raises ends _process_message
\* (except Exception, logged): the assignments before it have been made
Completed(fs, m) ==
  IF \E i \in 1..Len(fs) : fs[i] = m.lacks
    THEN SubSeq(fs, 1, (CHOOSE i \in 1..Len(fs) :
                          fs[i] = m.lacks /\ \A j \in 1..(i - 1) : fs[j] # m.lacks) - 1)
    ELSE fs

Assignments(m) ==
  Completed((IF m.type = "HEARTBEAT" THEN HandlerFields("HEARTBEAT") ELSE <<>>)
              \o (IF handlers /\ m.type \in HandlerTypes THEN HandlerFields(m.type) ELSE <<>>),
            m)

RECURSIVE AssignAll(_, _, _)
AssignAll(td, m, fs) ==
  IF fs = <<>> THEN td ELSE AssignAll(Assign(td, m, Head(fs)), m, Tail(fs))

handle_heartbeat(td, m) == AssignAll(td, m, HandlerFields("HEARTBEAT"))

\* _process_message run to its end with nothing in between
process_message(td, m) == AssignAll(td, m, Assignments(m))

\* faulty variant: the loop gives the connection up when the heartbeat is overdue
LoopCheck_watchdog ==
  /\ tpc = "check"
  /\ tpc' = IF running /\ connected /\ ~stale THEN "poll" ELSE "dead"
  /\ alive' = IF tpc' = "dead" THEN alive - 1 ELSE alive
  /\ connected' = (connected /\ ~stale)
  /\ UNCHANGED <<running, connection, orphans, loopFault, telemetry_data, stale, link, coop,
                 auxVars, vehicleVars, callVars>>

\* faulty variant: while self._running
LoopCheck_ignores_connected ==
  /\ tpc = "check"
  /\ tpc' = IF running THEN "poll" ELSE "dead"
  /\ alive' = IF tpc' = "dead" THEN alive - 1 ELSE alive
  /\ UNCHANGED <<clientVars, loopFault, telemetry_data, stale, link, coop, auxVars, vehicleVars, callVars>>

\* while self._running and self._connected
LoopCheck ==
  /\ tpc = "check"
  /\ tpc' = IF running /\ connected THEN "poll" ELSE "dead"
  /\ alive' = IF tpc' = "dead" THEN alive - 1 ELSE alive
  /\ UNCHANGED <<clientVars, loopFault, telemetry_data, stale, link, coop, auxVars, vehicleVars, callVars>>

\* msg = self.connection.recv_match(blocking=False, timeout=0.1); _process_message(msg)
LoopPoll ==
  /\ tpc = "poll"
  /\ tpc' = "check" /\ UNCHANGED alive
  /\ \E raised \in {FALSE, broken} :
     IF raised   \* "Telemetry loop error", caught
       THEN UNCHANGED <<loopFault, telemetry_data, stale, link>>
     ELSE IF connection = "None"
       THEN loopFault' = "cleared" /\ UNCHANGED <<telemetry_data, stale, link>>
     ELSE IF connection = "closed"
       THEN loopFault' = "closed" /\ UNCHANGED <<telemetry_data, stale, link>>
     ELSE IF link = <<>>
       THEN UNCHANGED <<loopFault, telemetry_data, stale, link>>
     ELSE /\ link' = Tail(link)
          /\ telemetry_data' = process_message(telemetry_data, Head(link))
          /\ stale' = IF Head(link).type = "HEARTBEAT" THEN FALSE ELSE stale
          /\ UNCHANGED loopFault
  /\ UNCHANGED <<clientVars, coop, auxVars, vehicleVars, callVars>>

\* the same two statements, one assignment at a time, for the methods that read or
\* replace telemetry_data while a handler runs: recv_match, then _process_message
LoopRecv ==
  /\ tpc = "poll" /\ UNCHANGED alive
  /\ IF connection = "None"
       THEN /\ loopFault' = "cleared" /\ tpc' = "check"
            /\ UNCHANGED <<stale, link, tmsg, tstep>>
     ELSE IF connection = "closed"
       THEN /\ loopFault' = "closed" /\ tpc' = "check"
            /\ UNCHANGED <<stale, link, tmsg, tstep>>
     ELSE IF link = <<>>
       THEN tpc' = "check" /\ UNCHANGED <<loopFault, stale, link, tmsg, tstep>>
     ELSE /\ link' = Tail(link)
          /\ stale' = IF Head(link).type = "HEARTBEAT" THEN FALSE ELSE stale
          /\ IF Assignments(Head(link)) = <<>>
               THEN tpc' = "check" /\ UNCHANGED <<tmsg, tstep>>
               ELSE tpc' = "handle" /\ tmsg' = Head(link) /\ tstep' = 1
          /\ UNCHANGED loopFault
  /\ UNCHANGED <<clientVars, telemetry_data, coop, vehicleVars, callVars,
                 idVars, initialized, handlers, snapshot, aliased, broken, nav>>

\* the next assignment of the handler; after the last one, back to the while test
LoopHandle ==
  /\ tpc = "handle" /\ UNCHANGED alive
  /\ IF tstep <= Len(Assignments(tmsg))
       THEN /\ telemetry_data' = Assign(telemetry_data, tmsg, Assignments(tmsg)[tstep])
            /\ snapshot' = IF aliased THEN telemetry_data' ELSE snapshot
            /\ tstep' = tstep + 1
            /\ UNCHANGED <<tpc, tmsg>>
       ELSE /\ tpc' = "check" /\ tmsg' = NoMsg /\ tstep' = 0
            /\ UNCHANGED <<telemetry_data, snapshot>>
  /\ UNCHANGED <<clientVars, loopFault, stale, link, coop, vehicleVars, callVars,
                 idVars, initialized, handlers, aliased, broken, nav>>

----------------------------------------------------------------------------
(* The caller's thread: calling and returning *)

Ops == {"connect", "disconnect", "set_mode", "emergency_stop",
        "autonomous_takeoff", "autonomous_land",
        "initialize", "start", "stop", "cleanup", "get_telemetry_data",
        "get_current_altitude", "arm_disarm",
        "Deneme3.connect", "Deneme3.get_location", "Deneme3.takeoff",
        "UAVPlane.takeoff"}

\* the caller enters public method o at label `at`, with set_mode argument `mode`
Enter(o, at, mode) ==
  /\ pc = "done"
  /\ op' = o /\ pc' = at
  /\ prevCall' = IF op = "disconnect" THEN "disconnect"
                 ELSE IF op = "autonomous_takeoff" /\ ~result /\ lastError = "mode"
                   THEN "takeoff-mode"
                 ELSE "other"
  /\ modeArg' = mode /\ cont' = "none" /\ subResult' = FALSE /\ retries' = 0
  /\ result' = FALSE /\ lastError' = "none" /\ log' = <<>> /\ earlyAck' = FALSE

\* return v from the running method; the locals die with the frame
Return(v) ==
  /\ pc' = "done" /\ result' = v
  /\ cont' = "none" /\ modeArg' = "none" /\ subResult' = FALSE /\ retries' = 0

\* a step inside a method that moves to label l and touches no other local
Goto(l) == pc' = l /\ UNCHANGED <<cont, modeArg, subResult, retries, result>>

\* what no step inside a method changes
Frame == UNCHANGED <<op, prevCall>>

\* call set_mode(mode) from inside a method, to come back at label k
CallSub(mode, k) ==
  pc' = "sm_enter" /\ modeArg' = mode /\ cont' = k /\ UNCHANGED <<subResult, retries, result>>

\* set_mode returns v to the method that called it
SubReturn(v) ==
  pc' = cont /\ subResult' = v /\ UNCHANGED <<cont, modeArg, retries, result>>

\* faulty variant: no try around the sends, the exception leaves the method
Raised_uncaught == lastError' = "exception" /\ Goto("raised")

\* a send raises inside the method's try: the except logs it and returns False
Raised == lastError' = "exception" /\ Return(FALSE)

----------------------------------------------------------------------------
(* connect, start_telemetry_thread, disconnect *)

ThreadAlive == tpc \in {"check", "poll", "handle"}

call_connect ==
  /\ connection = "None" \/ orphans < MaxOrphans
  /\ Enter("connect", "cn_open", "none")
  /\ UNCHANGED <<clientVars, threadVars, stale, link, coop, auxVars, vehicleVars>>

\* self.connection = mavutil.mavlink_connection(...): opens a transport, or raises
connect_open ==
  /\ pc = "cn_open"
  /\ \E opened \in BOOLEAN :
       IF opened
         THEN /\ connection' = "open"
              /\ orphans' = IF connection = "open" THEN orphans + 1 ELSE orphans
              /\ Goto("cn_wait")
              /\ UNCHANGED <<connected, lastError>>
         ELSE /\ connected' = FALSE
              /\ lastError' = "open"
              /\ Return(FALSE)
              /\ UNCHANGED <<connection, orphans>>
  /\ Frame
  /\ UNCHANGED <<running, threadVars, stale, link, coop, auxVars, vehicleVars, log, earlyAck>>

\* faulty variant: start_telemetry_thread does not test is_alive(): a thread that
\* outlived disconnect()'s join keeps running beside the new one
connect_heartbeat_always_starts ==
  /\ pc = "cn_wait" /\ link # <<>>
  /\ link' = Tail(link)
  /\ IF Head(link).type = "HEARTBEAT"
       THEN /\ connected' = TRUE
            /\ system_id' = get_srcSystem(Head(link))
            /\ component_id' = get_srcComponent(Head(link))
            /\ stale' = FALSE
            /\ log' = Append(log, Rx(Head(link)))
            /\ running' = TRUE /\ tpc' = "check" /\ alive' = alive + 1
            /\ Return(TRUE)
       ELSE /\ Goto("cn_wait")
            /\ UNCHANGED <<connected, idVars, stale, log, running, tpc, alive>>
  /\ Frame
  /\ UNCHANGED <<connection, orphans, loopFault, telemetry_data, coop, vehicleVars,
                 lastError, earlyAck, initialized, handlers, tmsg, tstep, snapshot, aliased, broken, nav>>

\* heartbeat = self.connection.wait_heartbeat(timeout=10), then start_telemetry_thread()
connect_heartbeat ==
  /\ pc = "cn_wait" /\ link # <<>>
  /\ link' = Tail(link)
  /\ IF Head(link).type = "HEARTBEAT"
       THEN /\ connected' = TRUE
            /\ system_id' = get_srcSystem(Head(link))
            /\ component_id' = get_srcComponent(Head(link))
            /\ stale' = FALSE
            /\ log' = Append(log, Rx(Head(link)))
            /\ IF ThreadAlive
                 THEN UNCHANGED <<running, tpc, alive>>
                 ELSE running' = TRUE /\ tpc' = "check" /\ alive' = alive + 1
            /\ Return(TRUE)
       ELSE /\ Goto("cn_wait")
            /\ UNCHANGED <<connected, idVars, stale, log, running, tpc, alive>>
  /\ Frame
  /\ UNCHANGED <<connection, orphans, loopFault, telemetry_data, coop, vehicleVars,
                 lastError, earlyAck, initialized, handlers, tmsg, tstep, snapshot, aliased, broken, nav>>

\* faulty variant: the except branch does not reset self._connected
connect_timeout_keeps_flag ==
  /\ pc = "cn_wait" /\ TimeoutOK("HEARTBEAT")
  /\ lastError' = "heartbeat"
  /\ Return(FALSE)
  /\ Frame
  /\ UNCHANGED <<clientVars, threadVars, stale, link, coop, auxVars, vehicleVars,
                 log, earlyAck>>

\* no heartbeat: ConnectionError, caught: self._connected = False
connect_timeout ==
  /\ pc = "cn_wait" /\ TimeoutOK("HEARTBEAT")
  /\ connected' = FALSE
  /\ lastError' = "heartbeat"
  /\ Return(FALSE)
  /\ Frame
  /\ UNCHANGED <<running, connection, orphans, threadVars, stale, link, coop, auxVars, vehicleVars,
                 log, earlyAck>>

connect == connect_open \/ connect_heartbeat \/ connect_timeout

call_disconnect ==
  /\ Enter("disconnect", "dc_flags", "none")
  /\ UNCHANGED <<clientVars, threadVars, stale, link, coop, auxVars, vehicleVars>>

\* faulty variant: disconnect() also puts the store back to its defaults
disconnect_flags_resets_store ==
  /\ pc = "dc_flags"
  /\ running' = FALSE /\ connected' = FALSE
  /\ telemetry_data' = reset_telemetry_data
  /\ Goto("dc_alive")
  /\ Frame
  /\ UNCHANGED <<connection, orphans, tpc, alive, loopFault, stale, link, coop, auxVars,
                 vehicleVars, lastError, log, earlyAck>>

\* faulty variant: self._connected is cleared only after the transport is gone (never here)
disconnect_flags_keeps_connected ==
  /\ pc = "dc_flags"
  /\ running' = FALSE /\ UNCHANGED connected
  /\ Goto("dc_alive")
  /\ Frame
  /\ UNCHANGED <<connection, orphans, threadVars, stale, link, coop, auxVars, vehicleVars,
                 lastError, log, earlyAck>>

\* self._running = False; self._connected = False
disconnect_flags ==
  /\ pc = "dc_flags"
  /\ running' = FALSE /\ connected' = FALSE
  /\ Goto("dc_alive")
  /\ Frame
  /\ UNCHANGED <<connection, orphans, threadVars, stale, link, coop, auxVars, vehicleVars,
                 lastError, log, earlyAck>>

\* if self.telemetry_thread and self.telemetry_thread.is_alive(): join(timeout=2)
disconnect_alive ==
  /\ pc = "dc_alive"
  /\ IF ThreadAlive
       THEN log' = Append(log, Sys("join")) /\ Goto("dc_join")
       ELSE UNCHANGED log /\ Goto("dc_close")
  /\ Frame
  /\ UNCHANGED <<clientVars, threadVars, stale, link, coop, auxVars, vehicleVars, lastError, earlyAck>>

\* join(timeout=2) returns: the thread ended, or the two seconds did
disconnect_join ==
  /\ pc = "dc_join"
  /\ Goto("dc_close")
  /\ Frame
  /\ UNCHANGED <<clientVars, threadVars, stale, link, coop, auxVars, vehicleVars, lastError, log,
                 earlyAck>>

\* if self.connection: self.connection.close()
disconnect_close ==
  /\ pc = "dc_close"
  /\ \E raised \in {FALSE, broken} :
     IF connection # "None" /\ raised   \* close() raises: "Disconnection failed"
       THEN /\ lastError' = "exception"
            /\ IF cont = "none" THEN Return(FALSE) ELSE SubReturn(FALSE)
            /\ UNCHANGED <<connection, log>>
     ELSE IF connection # "None"
       THEN /\ connection' = "closed"
            /\ log' = Append(log, Sys("close"))
            /\ Goto("dc_clear")
            /\ UNCHANGED lastError
       ELSE /\ IF cont = "none" THEN Return(TRUE) ELSE SubReturn(TRUE)
            /\ UNCHANGED <<connection, log, lastError>>
  /\ Frame
  /\ UNCHANGED <<connected, running, orphans, threadVars, stale, link, coop, auxVars,
                 vehicleVars, earlyAck>>

\* self.connection = None; return True
disconnect_clear ==
  /\ pc = "dc_clear"
  /\ connection' = "None"
  /\ IF cont = "none" THEN Return(TRUE) ELSE SubReturn(TRUE)
  /\ Frame
  /\ UNCHANGED <<connected, running, orphans, threadVars, stale, link, coop, auxVars, vehicleVars,
                 lastError, log, earlyAck>>

disconnect ==
  \/ disconnect_flags \/ disconnect_alive \/ disconnect_join
  \/ disconnect_close \/ disconnect_clear

----------------------------------------------------------------------------
(* initialize, start, stop, cleanup, get_telemetry_data *)

call_initialize ==
  /\ Enter("initialize", "in_enter", "none")
  /\ UNCHANGED <<clientVars, threadVars, stale, link, coop, auxVars, vehicleVars>>

\* self.reset_telemetry_data(); self._initialized = True; return True
initialize ==
  /\ pc = "in_enter"
  /\ telemetry_data' = reset_telemetry_data   \* a new dict: a record handed out stays
  /\ aliased' = FALSE
  /\ initialized' = TRUE
  /\ Return(TRUE)
  /\ Frame
  /\ UNCHANGED <<clientVars, tpc, alive, loopFault, stale, link, coop, vehicleVars,
                 lastError, log, earlyAck, idVars, handlers, tmsg, tstep, snapshot, broken, nav>>

call_start ==
  /\ Enter("start", "sr_enter", "none")
  /\ UNCHANGED <<clientVars, threadVars, stale, link, coop, auxVars, vehicleVars>>

\* if not self._initialized: return False; self._running = True; return True
start ==
  /\ pc = "sr_enter"
  /\ IF initialized
       THEN running' = TRUE /\ Return(TRUE) /\ UNCHANGED lastError
       ELSE lastError' = "not initialized" /\ Return(FALSE) /\ UNCHANGED running
  /\ Frame
  /\ UNCHANGED <<connected, connection, orphans, threadVars, stale, link, coop, auxVars,
                 vehicleVars, log, earlyAck>>

call_stop ==
  /\ Enter("stop", "st_enter", "none")
  /\ UNCHANGED <<clientVars, threadVars, stale, link, coop, auxVars, vehicleVars>>

\* cleanup() begins with self.stop()
call_cleanup ==
  /\ Enter("cleanup", "st_enter", "none")
  /\ UNCHANGED <<clientVars, threadVars, stale, link, coop, auxVars, vehicleVars>>

\* stop: self._running = False; self.disconnect()
stop_enter ==
  /\ pc = "st_enter"
  /\ running' = FALSE
  /\ pc' = "dc_flags" /\ cont' = "st_ret"
  /\ UNCHANGED <<modeArg, subResult, retries, result>>
  /\ Frame
  /\ UNCHANGED <<connected, connection, orphans, threadVars, stale, link, coop, auxVars,
                 vehicleVars, lastError, log, earlyAck>>

\* stop returns True whatever disconnect returned; cleanup goes on with
\* self.message_handlers.clear() and returns True
stop_return ==
  /\ pc = "st_ret"
  /\ handlers' = IF op = "cleanup" THEN FALSE ELSE handlers
  /\ Return(TRUE)
  /\ Frame
  /\ UNCHANGED <<clientVars, threadVars, stale, link, coop, vehicleVars, lastError, log,
                 earlyAck, idVars, initialized, tmsg, tstep, snapshot, aliased, broken, nav>>

stop == stop_enter \/ stop_return

\* faulty variant: return self.telemetry_data
get_telemetry_data_returns_dict ==
  /\ Enter("get_telemetry_data", "done", "none")
  /\ snapshot' = telemetry_data /\ aliased' = TRUE
  /\ UNCHANGED <<clientVars, threadVars, stale, link, coop, vehicleVars,
                 idVars, initialized, handlers, tmsg, tstep, broken, nav>>

\* return self.telemetry_data.copy(): a new dict with the same (immutable) values
get_telemetry_data ==
  /\ Enter("get_telemetry_data", "done", "none")
  /\ snapshot' = telemetry_data /\ aliased' = FALSE
  /\ UNCHANGED <<clientVars, threadVars, stale, link, coop, vehicleVars,
                 idVars, initialized, handlers, tmsg, tstep, broken, nav>>

\* the caller writes a field of the record it was given
ModifyReturned ==
  /\ op = "get_telemetry_data" /\ pc = "done"
  /\ \E v \in BOOLEAN : snapshot' = [snapshot EXCEPT !.armable = v]
  /\ telemetry_data' = IF aliased THEN snapshot' ELSE telemetry_data
  /\ UNCHANGED <<clientVars, tpc, alive, loopFault, stale, link, coop, vehicleVars, callVars,
                 idVars, initialized, handlers, tmsg, tstep, aliased, broken, nav>>

----------------------------------------------------------------------------
(* set_mode *)

NotConnected == ~connected \/ connection = "None"

call_set_mode ==
  /\ \E name \in ModeNames : Enter("set_mode", "sm_enter", name)
  /\ UNCHANGED <<clientVars, threadVars, stale, link, coop, auxVars, vehicleVars>>

\* faulty variant: the name is not looked up in mode_mapping() before the send
set_mode_send_unchecked ==
  /\ pc = "sm_enter"
  /\ IF NotConnected \/ broken
       THEN /\ IF cont = "none" THEN Return(FALSE) ELSE SubReturn(FALSE)
            /\ UNCHANGED <<log, vehicleVars>>
       ELSE /\ Send(<<SET_MODE(modeArg)>>)
            /\ Goto("sm_wait")
  /\ Frame
  /\ UNCHANGED <<clientVars, threadVars, stale, link, coop, auxVars, lastError, earlyAck>>

\* the connection guard, the mode table, self.connection.set_mode(mode_id)
set_mode_send ==
  /\ pc = "sm_enter"
  /\ IF NotConnected \/ modeArg \notin mode_mapping \/ broken   \* or the send raises
       THEN /\ IF cont = "none" THEN Return(FALSE) ELSE SubReturn(FALSE)
            /\ UNCHANGED <<log, vehicleVars>>
       ELSE /\ Send(<<SET_MODE(modeArg)>>)
            /\ Goto("sm_wait")
  /\ Frame
  /\ UNCHANGED <<clientVars, threadVars, stale, link, coop, auxVars, lastError, earlyAck>>

\* faulty variant: the first HEARTBEAT confirms, whatever mode it reports
set_mode_recv_any_mode ==
  /\ pc = "sm_wait" /\ link # <<>>
  /\ link' = Tail(link)
  /\ IF Head(link).type = "HEARTBEAT"
       THEN /\ log' = Append(log, Rx(Head(link)))
            /\ IF cont = "none" THEN Return(TRUE) ELSE SubReturn(TRUE)
       ELSE /\ Goto("sm_wait")
            /\ UNCHANGED log
  /\ Frame
  /\ UNCHANGED <<clientVars, threadVars, stale, coop, auxVars, vehicleVars, lastError, earlyAck>>

\* recv_match(type='HEARTBEAT', blocking=True, timeout=1) inside the 10 s window
set_mode_recv ==
  /\ pc = "sm_wait" /\ link # <<>>
  /\ link' = Tail(link)
  /\ IF Head(link).type = "HEARTBEAT" /\ Head(link).s = modeArg
       THEN /\ log' = Append(log, Rx(Head(link)))
            /\ IF cont = "none" THEN Return(TRUE) ELSE SubReturn(TRUE)
       ELSE /\ Goto("sm_wait")
            /\ UNCHANGED log
  /\ Frame
  /\ UNCHANGED <<clientVars, threadVars, stale, coop, auxVars, vehicleVars, lastError, earlyAck>>

\* the window ends: "Mode change ... timed out", return False
set_mode_timeout ==
  /\ pc = "sm_wait" /\ TimeoutOK("HEARTBEAT")
  /\ IF cont = "none" THEN Return(FALSE) ELSE SubReturn(FALSE)
  /\ Frame
  /\ UNCHANGED <<clientVars, threadVars, stale, link, coop, auxVars, vehicleVars, lastError, log,
                 earlyAck>>

set_mode == set_mode_send \/ set_mode_recv \/ set_mode_timeout

----------------------------------------------------------------------------
(* emergency_stop *)

call_emergency_stop ==
  /\ Enter("emergency_stop", "es_enter", "none")
  /\ UNCHANGED <<clientVars, threadVars, stale, link, coop, auxVars, vehicleVars>>

\* faulty variant: the guard also wants a fresh heartbeat
emergency_stop_enter_wants_heartbeat ==
  /\ pc = "es_enter"
  /\ IF NotConnected \/ stale
       THEN /\ lastError' = "not connected"
            /\ Return(FALSE)
       ELSE /\ CallSub("RTL", "es_ret")
            /\ UNCHANGED lastError
  /\ Frame
  /\ UNCHANGED <<clientVars, threadVars, stale, link, coop, auxVars, vehicleVars, log, earlyAck>>

\* if not self.is_connected or not self.connection: return False; else set_mode('RTL')
emergency_stop_enter ==
  /\ pc = "es_enter"
  /\ IF NotConnected
       THEN /\ lastError' = "not connected"
            /\ Return(FALSE)
       ELSE /\ CallSub("RTL", "es_ret")
            /\ UNCHANGED lastError
  /\ Frame
  /\ UNCHANGED <<clientVars, threadVars, stale, link, coop, auxVars, vehicleVars, log, earlyAck>>

\* return self.set_mode('RTL')
emergency_stop_return ==
  /\ pc = "es_ret"
  /\ Return(subResult)
  /\ Frame
  /\ UNCHANGED <<clientVars, threadVars, stale, link, coop, auxVars, vehicleVars, lastError, log,
                 earlyAck>>

emergency_stop == emergency_stop_enter \/ emergency_stop_return

----------------------------------------------------------------------------
(* arm_disarm, through send_command_long *)

\* the argument is kept in modeArg
call_arm_disarm ==
  /\ \E arm \in {"arm", "disarm"} : Enter("arm_disarm", "ad_enter", arm)
  /\ UNCHANGED <<clientVars, threadVars, stale, link, coop, auxVars, vehicleVars>>

\* faulty variant: arm_disarm records the state it asked for in the store
arm_disarm_sets_armed ==
  /\ pc = "ad_enter"
  /\ IF NotConnected \/ broken
       THEN Return(FALSE) /\ UNCHANGED <<log, vehicleVars, telemetry_data>>
       ELSE /\ Send(<<ARM_DISARM(modeArg = "arm")>>)
            /\ telemetry_data' = [telemetry_data EXCEPT !.armed = (modeArg = "arm")]
            /\ Return(TRUE)
  /\ Frame
  /\ UNCHANGED <<clientVars, tpc, alive, loopFault, stale, link, coop, auxVars, lastError, earlyAck>>

\* param1 = 1.0 if arm else 0.0; send_command_long: the guard returns False, the
\* send returns True, a send that raises returns False
arm_disarm ==
  /\ pc = "ad_enter"
  /\ IF NotConnected \/ broken
       THEN Return(FALSE) /\ UNCHANGED <<log, vehicleVars, telemetry_data>>
       ELSE /\ Send(<<ARM_DISARM(modeArg = "arm")>>)
            /\ UNCHANGED telemetry_data
            /\ Return(TRUE)
  /\ Frame
  /\ UNCHANGED <<clientVars, tpc, alive, loopFault, stale, link, coop, auxVars, lastError, earlyAck>>

----------------------------------------------------------------------------
(* get_current_altitude; its result is TRUE for an altitude, FALSE for None *)

call_get_current_altitude ==
  /\ Enter("get_current_altitude", "ga_enter", "none")
  /\ UNCHANGED <<clientVars, threadVars, stale, link, coop, auxVars, vehicleVars>>

\* if not self.is_connected or not self.connection: return None
get_current_altitude_enter ==
  /\ pc = "ga_enter"
  /\ IF NotConnected THEN Return(FALSE) ELSE Goto("ga_wait")
  /\ Frame
  /\ UNCHANGED <<clientVars, threadVars, stale, link, coop, auxVars, vehicleVars, lastError, log,
                 earlyAck>>

\* recv_match(type='GLOBAL_POSITION_INT', blocking=True, timeout=5) takes messages
\* until one matches: return msg.alt / 1000.0
get_current_altitude_recv ==
  /\ pc = "ga_wait" /\ link # <<>>
  /\ link' = Tail(link)
  /\ IF Head(link).type = "GLOBAL_POSITION_INT"
       THEN log' = Append(log, Rx(Head(link))) /\ Return(TRUE)
       ELSE UNCHANGED log /\ Goto("ga_wait")
  /\ Frame
  /\ UNCHANGED <<clientVars, threadVars, stale, coop, auxVars, vehicleVars, lastError, earlyAck>>

\* faulty variant: recv_match without a timeout never gives up
get_current_altitude_timeout_none ==
  /\ pc = "ga_wait" /\ TimeoutOK("GLOBAL_POSITION_INT")
  /\ Goto("ga_wait")
  /\ Frame
  /\ UNCHANGED <<clientVars, threadVars, stale, link, coop, auxVars, vehicleVars, lastError, log,
                 earlyAck>>

\* the five seconds pass (or the receive raises): return None
get_current_altitude_timeout ==
  /\ pc = "ga_wait" /\ TimeoutOK("GLOBAL_POSITION_INT")
  /\ Return(FALSE)
  /\ Frame
  /\ UNCHANGED <<clientVars, threadVars, stale, link, coop, auxVars, vehicleVars, lastError, log,
                 earlyAck>>

get_current_altitude ==
  \/ get_current_altitude_enter \/ get_current_altitude_recv \/ get_current_altitude_timeout

----------------------------------------------------------------------------

(* autonomous_takeoff (with arm_disarm / send_command_long and get_location inlined) *)

\* location = self.get_location(): lat, lon = msg.lat / 1e7, msg.lon / 1e7 of the
\* position message the running method received (degrees)
location ==
  LET got == {i \in 1..Len(log) : log[i].d = "rx" /\ log[i].m.type = "GLOBAL_POSITION_INT"}
      msg == IF got = {} THEN GLOBAL_POSITION_INT
             ELSE log[CHOOSE i \in got : \A j \in got : j <= i].m
  IN  <<FieldValue(msg, "lat"), FieldValue(msg, "lon")>>

\* step 8: the item at the lat, lon get_location returned, z = altitude
NAV_TAKEOFF_ITEM ==
  ItemAt(0, "NAV_TAKEOFF", 1, location[1] * 10000, location[2] * 10000, TakeoffAlt)

call_autonomous_takeoff ==
  /\ Enter("autonomous_takeoff", "tk_enter", "none")
  /\ UNCHANGED <<clientVars, threadVars, stale, link, coop, auxVars, vehicleVars>>

\* the connection guard, then step 1: set_mode('GUIDED')
takeoff_enter ==
  /\ pc = "tk_enter"
  /\ IF NotConnected
       THEN lastError' = "not connected" /\ Return(FALSE)
       ELSE CallSub("GUIDED", "tk_guided") /\ UNCHANGED lastError
  /\ Frame
  /\ UNCHANGED <<clientVars, threadVars, stale, link, coop, auxVars, vehicleVars, log, earlyAck>>

\* if not self.set_mode('GUIDED'): return False; step 2: arm_disarm(arm=True)
takeoff_arm ==
  /\ pc = "tk_guided"
  /\ IF ~subResult
       THEN /\ lastError' = "mode" /\ Return(FALSE)
            /\ UNCHANGED <<log, vehicleVars>>
     ELSE IF NotConnected \/ broken   \* send_command_long: its guard, its except
       THEN /\ lastError' = "arm" /\ Return(FALSE)
            /\ UNCHANGED <<log, vehicleVars>>
     ELSE /\ Send(<<ARM_DISARM(TRUE)>>)
          /\ Goto("tk_armwait")
          /\ UNCHANGED lastError
  /\ Frame
  /\ UNCHANGED <<clientVars, threadVars, stale, link, coop, auxVars, earlyAck>>

\* step 3: recv_match(type='HEARTBEAT'); break on the armed flag, then get_location()
takeoff_arm_recv ==
  /\ pc = "tk_armwait" /\ link # <<>>
  /\ link' = Tail(link)
  /\ IF Head(link).type = "HEARTBEAT" /\ Head(link).b
       THEN log' = Append(log, Rx(Head(link))) /\ Goto("tk_loc")
       ELSE UNCHANGED log /\ Goto("tk_armwait")
  /\ Frame
  /\ UNCHANGED <<clientVars, threadVars, stale, coop, auxVars, vehicleVars, lastError, earlyAck>>

\* faulty variant: the arm wait has no else, its timeout falls through to step 4
takeoff_arm_timeout_falls_through ==
  /\ pc = "tk_armwait" /\ TimeoutOK("HEARTBEAT")
  /\ Goto("tk_loc")
  /\ Frame
  /\ UNCHANGED <<clientVars, threadVars, stale, link, coop, auxVars, vehicleVars, lastError, log, earlyAck>>

\* the while's else: "Vehicle failed to arm within timeout"
takeoff_arm_timeout ==
  /\ pc = "tk_armwait" /\ TimeoutOK("HEARTBEAT")
  /\ lastError' = "arm" /\ Return(FALSE)
  /\ Frame
  /\ UNCHANGED <<clientVars, threadVars, stale, link, coop, auxVars, vehicleVars, log, earlyAck>>

\* step 4, get_location: a GLOBAL_POSITION_INT arrives; step 5: mission_clear_all_send
get_location_recv ==
  /\ pc = "tk_loc" /\ link # <<>>
  /\ link' = Tail(link)
  /\ IF Head(link).type = "GLOBAL_POSITION_INT" /\ broken
       THEN /\ log' = Append(log, Rx(Head(link)))
            /\ Raised /\ UNCHANGED vehicle
     ELSE IF Head(link).type = "GLOBAL_POSITION_INT"
       THEN /\ log' = Append(log, Rx(Head(link))) \o <<Tx(MISSION_CLEAR_ALL)>>
            /\ vehicle' = VehicleGets(vehicle, MISSION_CLEAR_ALL)
            /\ pc' = "tk_clearwait" /\ retries' = 0
            /\ UNCHANGED <<cont, modeArg, subResult, result, lastError>>
       ELSE UNCHANGED <<log, vehicle, lastError>> /\ Goto("tk_loc")
  /\ Frame
  /\ UNCHANGED <<clientVars, threadVars, stale, coop, auxVars, earlyAck>>

\* faulty variant: `if not location` is missing, the upload starts without a position
get_location_timeout_falls_through ==
  /\ pc = "tk_loc" /\ TimeoutOK("GLOBAL_POSITION_INT")
  /\ IF retries + 1 < MaxRetries
       THEN /\ pc' = "tk_loc" /\ retries' = retries + 1
            /\ UNCHANGED <<cont, modeArg, subResult, result, lastError, log, vehicle>>
       ELSE /\ log' = Append(log, Tx(MISSION_CLEAR_ALL))
            /\ vehicle' = VehicleGets(vehicle, MISSION_CLEAR_ALL)
            /\ pc' = "tk_clearwait" /\ retries' = 0
            /\ UNCHANGED <<cont, modeArg, subResult, result, lastError>>
  /\ Frame
  /\ UNCHANGED <<clientVars, threadVars, stale, link, coop, auxVars, earlyAck>>

\* get_location: one receive attempt ends with None; after max_retries, return None
get_location_timeout ==
  /\ pc = "tk_loc" /\ TimeoutOK("GLOBAL_POSITION_INT")
  /\ IF retries + 1 < MaxRetries
       THEN /\ pc' = "tk_loc" /\ retries' = retries + 1
            /\ UNCHANGED <<cont, modeArg, subResult, result, lastError>>
       ELSE lastError' = "location" /\ Return(FALSE)
  /\ Frame
  /\ UNCHANGED <<clientVars, threadVars, stale, link, coop, auxVars, vehicleVars, log, earlyAck>>

\* the wait after MISSION_CLEAR_ALL: an accepted ack lets step 6 send MISSION_COUNT(1),
\* any other ack returns False
takeoff_clear_recv ==
  /\ pc = "tk_clearwait" /\ link # <<>>
  /\ link' = Tail(link)
  /\ IF Head(link).type = "MISSION_ACK"
       THEN IF Head(link).n = MAV_MISSION_ACCEPTED /\ broken
              THEN /\ log' = Append(log, Rx(Head(link)))
                   /\ Raised /\ UNCHANGED vehicle
            ELSE IF Head(link).n = MAV_MISSION_ACCEPTED
              THEN /\ log' = Append(log, Rx(Head(link))) \o <<Tx(MISSION_COUNT(1))>>
                   /\ vehicle' = VehicleGets(vehicle, MISSION_COUNT(1))
                   /\ Goto("tk_reqwait")
                   /\ UNCHANGED lastError
              ELSE /\ log' = Append(log, Rx(Head(link)))
                   /\ lastError' = "clear" /\ Return(FALSE)
                   /\ UNCHANGED vehicle
       ELSE UNCHANGED <<log, vehicle, lastError>> /\ Goto("tk_clearwait")
  /\ Frame
  /\ UNCHANGED <<clientVars, threadVars, stale, coop, auxVars, earlyAck>>

\* that wait has no else: after its window, step 6 sends MISSION_COUNT(1) all the same
takeoff_clear_timeout ==
  /\ pc = "tk_clearwait" /\ TimeoutOK("MISSION_ACK")
  /\ IF broken
       THEN Raised /\ UNCHANGED <<log, vehicle>>
       ELSE Send(<<MISSION_COUNT(1)>>) /\ Goto("tk_reqwait") /\ UNCHANGED lastError
  /\ Frame
  /\ UNCHANGED <<clientVars, threadVars, stale, link, coop, auxVars, earlyAck>>

\* step 7: recv_match(type='MISSION_REQUEST'); on seq == 0, step 8 sends the item
takeoff_request_recv ==
  /\ pc = "tk_reqwait" /\ link # <<>>
  /\ link' = Tail(link)
  /\ IF Head(link).type = "MISSION_REQUEST" /\ Head(link).n = 0 /\ broken
       THEN /\ log' = Append(log, Rx(Head(link)))
            /\ Raised /\ UNCHANGED <<vehicle, earlyAck>>
     ELSE IF Head(link).type = "MISSION_REQUEST" /\ Head(link).n = 0
       THEN /\ log' = Append(log, Rx(Head(link))) \o <<Tx(NAV_TAKEOFF_ITEM)>>
            /\ vehicle' = VehicleGets(vehicle, NAV_TAKEOFF_ITEM)
            /\ Goto("tk_ackwait")
            /\ UNCHANGED <<earlyAck, lastError>>
       ELSE /\ earlyAck' = (earlyAck \/ Head(link).type = "MISSION_ACK")
            /\ UNCHANGED <<log, vehicle, lastError>> /\ Goto("tk_reqwait")
  /\ Frame
  /\ UNCHANGED <<clientVars, threadVars, stale, coop, auxVars>>

\* the while's else: "No mission request received"
takeoff_request_timeout ==
  /\ pc = "tk_reqwait" /\ TimeoutOK("MISSION_REQUEST")
  /\ lastError' = "request" /\ Return(FALSE)
  /\ Frame
  /\ UNCHANGED <<clientVars, threadVars, stale, link, coop, auxVars, vehicleVars, log, earlyAck>>

\* faulty variant: any MISSION_ACK counts as acceptance (as in autonomous_land)
takeoff_ack_recv_any_status ==
  /\ pc = "tk_ackwait" /\ link # <<>>
  /\ link' = Tail(link)
  /\ IF Head(link).type = "MISSION_ACK"
       THEN log' = Append(log, Rx(Head(link))) /\ CallSub("AUTO", "tk_auto")
       ELSE UNCHANGED log /\ Goto("tk_ackwait")
  /\ Frame
  /\ UNCHANGED <<clientVars, threadVars, stale, coop, auxVars, vehicleVars, lastError, earlyAck>>

\* step 9: the first MISSION_ACK decides; accepted: step 10, set_mode('AUTO')
takeoff_ack_recv ==
  /\ pc = "tk_ackwait" /\ link # <<>>
  /\ link' = Tail(link)
  /\ IF Head(link).type = "MISSION_ACK"
       THEN /\ log' = Append(log, Rx(Head(link)))
            /\ IF Head(link).n = MAV_MISSION_ACCEPTED
                 THEN CallSub("AUTO", "tk_auto") /\ UNCHANGED lastError
                 ELSE lastError' = "ack" /\ Return(FALSE)
       ELSE UNCHANGED <<log, lastError>> /\ Goto("tk_ackwait")
  /\ Frame
  /\ UNCHANGED <<clientVars, threadVars, stale, coop, auxVars, vehicleVars, earlyAck>>

\* the while's else: "No mission acknowledgment received"
takeoff_ack_timeout ==
  /\ pc = "tk_ackwait" /\ TimeoutOK("MISSION_ACK")
  /\ lastError' = "ack" /\ Return(FALSE)
  /\ Frame
  /\ UNCHANGED <<clientVars, threadVars, stale, link, coop, auxVars, vehicleVars, log, earlyAck>>

\* if not self.set_mode('AUTO'): return False; else step 11
takeoff_auto ==
  /\ pc = "tk_auto"
  /\ IF ~subResult
       THEN lastError' = "auto" /\ Return(FALSE)
       ELSE /\ pc' = "tk_verify" /\ retries' = 0
            /\ UNCHANGED <<cont, modeArg, subResult, result, lastError>>
  /\ Frame
  /\ UNCHANGED <<clientVars, threadVars, stale, link, coop, auxVars, vehicleVars, log, earlyAck>>

\* faulty variant: running out of attempts is not checked, the method returns True
VerifyNext_unchecked ==
  IF retries + 1 < VerifyAttempts
    THEN /\ pc' = "tk_verify" /\ retries' = retries + 1
         /\ UNCHANGED <<cont, modeArg, subResult, result, lastError>>
    ELSE lastError' = "auto-verify" /\ Return(TRUE)

\* one more attempt of `for _ in range(10)` is used up
VerifyNext ==
  IF retries + 1 < VerifyAttempts
    THEN /\ pc' = "tk_verify" /\ retries' = retries + 1
         /\ UNCHANGED <<cont, modeArg, subResult, result, lastError>>
    ELSE lastError' = "auto-verify" /\ Return(FALSE)

\* faulty variant: any HEARTBEAT verifies, whatever mode it reports
takeoff_verify_recv_any_mode ==
  /\ pc = "tk_verify" /\ link # <<>>
  /\ link' = Tail(link)
  /\ IF Head(link).type = "HEARTBEAT"
       THEN /\ log' = Append(log, Rx(Head(link)))
            /\ Return(TRUE) /\ UNCHANGED lastError
       ELSE UNCHANGED <<log, lastError>> /\ Goto("tk_verify")
  /\ Frame
  /\ UNCHANGED <<clientVars, threadVars, stale, coop, auxVars, vehicleVars, earlyAck>>

\* step 11: a HEARTBEAT in AUTO verifies; any other HEARTBEAT uses the attempt up
takeoff_verify_recv ==
  /\ pc = "tk_verify" /\ link # <<>>
  /\ link' = Tail(link)
  /\ IF Head(link).type = "HEARTBEAT"
       THEN IF Head(link).s = "AUTO"
              THEN /\ log' = Append(log, Rx(Head(link)))
                   /\ Return(TRUE) /\ UNCHANGED lastError
              ELSE VerifyNext /\ UNCHANGED log
       ELSE UNCHANGED <<log, lastError>> /\ Goto("tk_verify")
  /\ Frame
  /\ UNCHANGED <<clientVars, threadVars, stale, coop, auxVars, vehicleVars, earlyAck>>

\* step 11: an attempt ends with None
takeoff_verify_timeout ==
  /\ pc = "tk_verify" /\ TimeoutOK("HEARTBEAT")
  /\ VerifyNext
  /\ Frame
  /\ UNCHANGED <<clientVars, threadVars, stale, link, coop, auxVars, vehicleVars, log, earlyAck>>

autonomous_takeoff ==
  \/ takeoff_enter \/ takeoff_arm \/ takeoff_arm_recv \/ takeoff_arm_timeout
  \/ get_location_recv \/ get_location_timeout
  \/ takeoff_clear_recv \/ takeoff_clear_timeout
  \/ takeoff_request_recv \/ takeoff_request_timeout
  \/ takeoff_ack_recv \/ takeoff_ack_timeout
  \/ takeoff_auto \/ takeoff_verify_recv \/ takeoff_verify_timeout

----------------------------------------------------------------------------
(* autonomous_land (with send_mission_item inlined) *)

\* faulty variant: the approach waypoint is marked current as well
LandItem_all_current(seq) ==
  IF seq = 0 THEN ItemAt(0, "NAV_TAKEOFF", 1, LandLat, LandLon, CurrentAlt)
  ELSE IF seq = 1
    THEN ItemAt(1, "NAV_WAYPOINT", 1, LandLat + ApproachOffset, LandLon + ApproachOffset,
                CruiseAlt)
  ELSE ItemAt(2, "NAV_LAND", 0, LandLat, LandLon, 0)

\* steps 3, 4, 5: send_mission_item(seq=..., command=..., current=..., x=, y=, z=)
LandItem(seq) ==
  IF seq = 0 THEN ItemAt(0, "NAV_TAKEOFF", 1, LandLat, LandLon, CurrentAlt)
  ELSE IF seq = 1
    THEN ItemAt(1, "NAV_WAYPOINT", 0, LandLat + ApproachOffset, LandLon + ApproachOffset,
                CruiseAlt)
  ELSE ItemAt(2, "NAV_LAND", 0, LandLat, LandLon, 0)

call_autonomous_land ==
  /\ Enter("autonomous_land", "ld_enter", "none")
  /\ UNCHANGED <<clientVars, threadVars, stale, link, coop, auxVars, vehicleVars>>

\* faulty variant: no connection guard before the upload
land_enter_unguarded ==
  /\ pc = "ld_enter"
  /\ IF broken   \* mission_clear_all_send raises
       THEN Raised /\ UNCHANGED <<log, vehicleVars>>
       ELSE /\ Send(<<MISSION_CLEAR_ALL, MISSION_COUNT(3), LandItem(0)>>)
            /\ Goto("ld_req1")
            /\ UNCHANGED lastError
  /\ Frame
  /\ UNCHANGED <<clientVars, threadVars, stale, link, coop, auxVars, earlyAck>>

\* the connection guard; steps 1-3: clear, count(3), item 0, with sleeps between
land_enter ==
  /\ pc = "ld_enter"
  /\ IF NotConnected
       THEN /\ lastError' = "not connected" /\ Return(FALSE)
            /\ UNCHANGED <<log, vehicleVars>>
     ELSE IF broken   \* mission_clear_all_send raises
       THEN Raised /\ UNCHANGED <<log, vehicleVars>>
       ELSE /\ Send(<<MISSION_CLEAR_ALL, MISSION_COUNT(3), LandItem(0)>>)
            /\ Goto("ld_req1")
            /\ UNCHANGED lastError
  /\ Frame
  /\ UNCHANGED <<clientVars, threadVars, stale, link, coop, auxVars, earlyAck>>

\* the wait before item seq (1 or 2): some MISSION_REQUEST arrives; the item is sent
land_request_recv ==
  /\ pc \in {"ld_req1", "ld_req2"} /\ link # <<>>
  /\ link' = Tail(link)
  /\ LET seq == IF pc = "ld_req1" THEN 1 ELSE 2 IN
     IF Head(link).type = "MISSION_REQUEST" /\ broken   \* send_mission_item: False
       THEN /\ log' = Append(log, Rx(Head(link)))
            /\ lastError' = "item" /\ Return(FALSE)
            /\ UNCHANGED vehicle
     ELSE IF Head(link).type = "MISSION_REQUEST"
       THEN /\ log' = Append(log, Rx(Head(link))) \o <<Tx(LandItem(seq))>>
            /\ vehicle' = VehicleGets(vehicle, LandItem(seq))
            /\ Goto(IF seq = 1 THEN "ld_req2" ELSE "ld_ack")
            /\ UNCHANGED lastError
       ELSE UNCHANGED <<log, vehicle, lastError>> /\ Goto(pc)
  /\ Frame
  /\ UNCHANGED <<clientVars, threadVars, stale, coop, auxVars, earlyAck>>

\* no MISSION_REQUEST within 5 s: a warning, and the item is sent
land_request_timeout ==
  /\ pc \in {"ld_req1", "ld_req2"} /\ TimeoutOK("MISSION_REQUEST")
  /\ IF broken   \* send_mission_item returns False: "Failed to send mission item"
       THEN lastError' = "item" /\ Return(FALSE) /\ UNCHANGED <<log, vehicle>>
       ELSE /\ Send(<<LandItem(IF pc = "ld_req1" THEN 1 ELSE 2)>>)
            /\ Goto(IF pc = "ld_req1" THEN "ld_req2" ELSE "ld_ack")
            /\ UNCHANGED lastError
  /\ Frame
  /\ UNCHANGED <<clientVars, threadVars, stale, link, coop, auxVars, earlyAck>>

\* the wait for MISSION_ACK: any ack is logged as acknowledged; step 6: set_mode("AUTO")
land_ack_recv ==
  /\ pc = "ld_ack" /\ link # <<>>
  /\ link' = Tail(link)
  /\ IF Head(link).type = "MISSION_ACK"
       THEN log' = Append(log, Rx(Head(link))) /\ CallSub("AUTO", "ld_auto")
       ELSE UNCHANGED log /\ Goto("ld_ack")
  /\ Frame
  /\ UNCHANGED <<clientVars, threadVars, stale, coop, auxVars, vehicleVars, lastError, earlyAck>>

\* no MISSION_ACK within 10 s: a warning; step 6: set_mode("AUTO")
land_ack_timeout ==
  /\ pc = "ld_ack" /\ TimeoutOK("MISSION_ACK")
  /\ CallSub("AUTO", "ld_auto")
  /\ Frame
  /\ UNCHANGED <<clientVars, threadVars, stale, link, coop, auxVars, vehicleVars, lastError, log,
                 earlyAck>>

\* if not self.set_mode("AUTO"): return False; return True
land_auto ==
  /\ pc = "ld_auto"
  /\ IF ~subResult
       THEN lastError' = "auto" /\ Return(FALSE)
       ELSE UNCHANGED lastError /\ Return(TRUE)
  /\ Frame
  /\ UNCHANGED <<clientVars, threadVars, stale, link, coop, auxVars, vehicleVars, log, earlyAck>>

autonomous_land ==
  \/ land_enter \/ land_request_recv \/ land_request_timeout
  \/ land_ack_recv \/ land_ack_timeout \/ land_auto

----------------------------------------------------------------------------
(* The specifications *)

telemetry_loop == LoopCheck \/ LoopPoll

\* the life cycle of one client and the commands that need no mission
Next ==
  \/ VehicleEmit \/ Tick \/ telemetry_loop
  \/ call_connect \/ connect
  \/ call_disconnect \/ disconnect
  \/ call_set_mode \/ set_mode
  \/ call_emergency_stop \/ emergency_stop

Spec == Init /\ [][Next]_vars

\* a client as connect() returned it (or as constructed), flown against either vehicle
InitWith(v) ==
  /\ coop \in BOOLEAN
  /\ vehicle = v
  /\ telemetry_data = reset_telemetry_data /\ stale = FALSE /\ loopFault = "none"
  /\ link = <<>> /\ orphans = 0
  /\ prevCall = "other" /\ pc = "done" /\ cont = "none"
  /\ modeArg = "none" /\ subResult = FALSE /\ retries = 0
  /\ lastError = "none" /\ earlyAck = FALSE
  /\ initialized = FALSE /\ handlers = TRUE
  /\ tmsg = NoMsg /\ tstep = 0
  /\ snapshot = reset_telemetry_data /\ aliased = FALSE
  /\ broken = FALSE
  /\ nav = NavInit
  /\ \/ /\ connected = TRUE /\ running = TRUE /\ connection = "open" /\ tpc = "check"
        /\ alive = 1
        /\ op = "connect" /\ result = TRUE
        /\ log = <<Rx(HEARTBEAT("GUIDED", FALSE))>>
        /\ system_id = get_srcSystem(HEARTBEAT("GUIDED", FALSE))
        /\ component_id = get_srcComponent(HEARTBEAT("GUIDED", FALSE))
     \/ /\ connected = FALSE /\ running = FALSE /\ connection = "None" /\ tpc = "none"
        /\ alive = 0
        /\ op = "none" /\ result = FALSE /\ log = <<>>
        /\ system_id = 0 /\ component_id = 0

InitFlight == InitWith(VehicleAtRest)

NextFlight ==
  \/ VehicleEmit \/ VehicleHeartbeat \/ VehiclePosition \/ VehicleReply
  \/ telemetry_loop
  \/ set_mode
  \/ call_autonomous_takeoff \/ autonomous_takeoff
  \/ call_autonomous_land \/ autonomous_land

SpecFlight == InitFlight /\ [][NextFlight]_vars

\* connecting and disconnecting on a link that two systems send heartbeats on
NextConnect ==
  \/ VehicleEmit \/ ForeignEmit \/ telemetry_loop
  \/ call_connect \/ connect
  \/ call_disconnect \/ disconnect

SpecConnect == Init /\ [][NextConnect]_vars

\* a client as connect() returned it, talking to an arbitrary vehicle
InitConnected ==
  /\ InitFlight /\ ~coop /\ connected

\* the position stream, the handlers one assignment at a time, and the life-cycle
\* methods of the component
NextTelemetry ==
  \/ PositionStream
  \/ LoopCheck \/ LoopRecv \/ LoopHandle
  \/ call_connect \/ connect
  \/ call_disconnect \/ disconnect
  \/ call_initialize \/ initialize
  \/ call_start \/ start
  \/ call_stop \/ call_cleanup \/ stop

SpecTelemetry == Init /\ [][NextTelemetry]_vars

\* get_telemetry_data() called while the handlers run, one assignment at a time
NextSnapshot ==
  \/ PositionStream
  \/ LoopCheck \/ LoopRecv \/ LoopHandle
  \/ get_telemetry_data
  \/ call_disconnect \/ disconnect

SpecSnapshot == InitConnected /\ [][NextSnapshot]_vars

\* the flight methods and disconnect() on a transport that fails at some point
NextFault ==
  \/ VehicleEmit \/ TransportBreaks
  \/ telemetry_loop
  \/ set_mode
  \/ call_emergency_stop \/ emergency_stop
  \/ call_autonomous_takeoff \/ autonomous_takeoff
  \/ call_autonomous_land \/ autonomous_land
  \/ call_disconnect \/ disconnect

SpecFault == InitConnected /\ [][NextFault]_vars

\* the link loses a message; to a waiting caller the telemetry loop's taking one
\* (recv_match without a type) is the same
LinkDrops ==
  /\ link # <<>>
  /\ link' = Tail(link)
  /\ UNCHANGED <<clientVars, threadVars, stale, coop, auxVars, vehicleVars, callVars>>

\* every method that waits on the link, called in any order on an arbitrary link
NextWaits ==
  \/ VehicleEmit \/ LinkDrops
  \/ call_connect \/ connect
  \/ call_set_mode \/ set_mode
  \/ call_emergency_stop \/ emergency_stop
  \/ call_get_current_altitude \/ get_current_altitude
  \/ call_autonomous_takeoff \/ autonomous_takeoff
  \/ call_autonomous_land \/ autonomous_land

\* a step of the method the caller is in
CallerStep ==
  \/ connect \/ set_mode \/ emergency_stop \/ get_current_altitude
  \/ autonomous_takeoff \/ autonomous_land

\* the deadline of the wait the caller is in passes
Deadline ==
  \/ connect_timeout \/ set_mode_timeout \/ get_current_altitude_timeout
  \/ takeoff_arm_timeout \/ get_location_timeout \/ takeoff_clear_timeout
  \/ takeoff_request_timeout \/ takeoff_ack_timeout \/ takeoff_verify_timeout
  \/ land_request_timeout \/ land_ack_timeout

\* the caller's thread keeps running, and the clock does: every wait is a
\* recv_match(timeout=...) inside a loop bounded by time or by a count
SpecWaits == Init /\ [][NextWaits]_vars /\ WF_vars(CallerStep) /\ WF_vars(Deadline)

\* arm_disarm() on a link that may fail, the loop running, before and after disconnect()
NextArm ==
  \/ VehicleEmit \/ TransportBreaks
  \/ telemetry_loop
  \/ call_arm_disarm \/ arm_disarm
  \/ call_disconnect \/ disconnect

SpecArm == InitConnected /\ [][NextArm]_vars

\* records handed out by get_telemetry_data(), written to by their holder while the
\* handlers go on writing the store
NextCopy ==
  \/ PositionStream
  \/ LoopCheck \/ LoopRecv \/ LoopHandle
  \/ get_telemetry_data \/ ModifyReturned

SpecCopy == InitConnected /\ [][NextCopy]_vars

\* the navigator polled with arbitrary positions
NavUpdate ==
  /\ \E pos \in NavPositions : nav' = update(nav, pos)
  /\ UNCHANGED <<clientVars, threadVars, stale, link, coop, vehicleVars, callVars,
                 idVars, initialized, handlers, tmsg, tstep, snapshot, aliased, broken>>

SpecNav == InitConnected /\ [][NavUpdate]_vars

\* autonomous_takeoff against a vehicle that follows the protocol but answers late
NextDelay ==
  \/ VehicleHeartbeat \/ VehiclePosition \/ VehicleReply \/ VehicleReplyLate
  \/ LinkDrops
  \/ set_mode
  \/ (vehicle.pend = <<>> /\ call_autonomous_takeoff)
  \/ autonomous_takeoff

InitDelay == InitWith(VehicleLate) /\ coop /\ connected

SpecDelay == InitDelay /\ [][NextDelay]_vars

\* autonomous_takeoff on a vehicle that moves: the position stream carries readings
NextLocation ==
  \/ VehicleEmit \/ PositionStream
  \/ set_mode
  \/ call_autonomous_takeoff \/ autonomous_takeoff

SpecLocation == InitConnected /\ [][NextLocation]_vars

----------------------------------------------------------------------------
(* The older client, Arayuz Deneme3/mavlink_client.py: connect, get_location and
   takeoff.  It has no telemetry thread; self.connected and self.connection are the
   variables connected and connection.  retries counts the receive attempts of the
   loop the caller is in, up to MaxAttempts (the code keeps no count). *)

call_Deneme3_connect ==
  /\ connection = "None" \/ orphans < MaxOrphans
  /\ Enter("Deneme3.connect", "d3_open", "none")
  /\ UNCHANGED <<clientVars, threadVars, stale, link, coop, auxVars, vehicleVars>>

\* self.connection = mavutil.mavlink_connection(connection_string)
Deneme3_connect_open ==
  /\ pc = "d3_open"
  /\ connection' = "open"
  /\ orphans' = IF connection = "open" THEN orphans + 1 ELSE orphans
  /\ Goto("d3_wait")
  /\ Frame
  /\ UNCHANGED <<connected, running, threadVars, stale, link, coop, auxVars, vehicleVars,
                 lastError, log, earlyAck>>

\* heartbeat = self.connection.wait_heartbeat(timeout=10); start_telemetry_thread()
Deneme3_connect_heartbeat ==
  /\ pc = "d3_wait" /\ link # <<>>
  /\ link' = Tail(link)
  /\ IF Head(link).type = "HEARTBEAT"
       THEN /\ connected' = TRUE /\ running' = TRUE
            /\ log' = Append(log, Rx(Head(link)))
            /\ Return(TRUE)
       ELSE /\ Goto("d3_wait")
            /\ UNCHANGED <<connected, running, log>>
  /\ Frame
  /\ UNCHANGED <<connection, orphans, threadVars, stale, coop, auxVars, vehicleVars,
                 lastError, earlyAck>>

\* "No heartbeat received - connection failed": return False
Deneme3_connect_timeout ==
  /\ pc = "d3_wait" /\ TimeoutOK("HEARTBEAT")
  /\ lastError' = "heartbeat"
  /\ Return(FALSE)
  /\ Frame
  /\ UNCHANGED <<clientVars, threadVars, stale, link, coop, auxVars, vehicleVars, log, earlyAck>>

Deneme3_connect ==
  Deneme3_connect_open \/ Deneme3_connect_heartbeat \/ Deneme3_connect_timeout

\* mission_item_send(..., 0, frame, MAV_CMD_NAV_TAKEOFF, 0, 1, 0, 0, 0, 0, lat, lon, altitude)
Deneme3_TAKEOFF_ITEM(m) ==
  [Msg("MISSION_ITEM", "NAV_TAKEOFF", 0, FALSE)
     EXCEPT !.x = FieldValue(m, "lat"), !.y = FieldValue(m, "lon"), !.z = TakeoffAlt]

\* set_mode / send_command_long of the older client: guarded, one send, no wait
Deneme3_Guarded(ms) == IF NotConnected THEN <<>> ELSE ms

call_Deneme3_get_location ==
  /\ Enter("Deneme3.get_location", "d3_loc", "none")
  /\ UNCHANGED <<clientVars, threadVars, stale, link, coop, auxVars, vehicleVars>>

call_Deneme3_takeoff ==
  /\ Enter("Deneme3.takeoff", "d3_tk", "none")
  /\ UNCHANGED <<clientVars, threadVars, stale, link, coop, auxVars, vehicleVars>>

\* takeoff: self.set_mode('GUIDED'); self.arm_disarm(arm=True); then get_location()
Deneme3_takeoff_enter ==
  /\ pc = "d3_tk"
  /\ Send(Deneme3_Guarded(<<SET_MODE("GUIDED"), ARM_DISARM(TRUE)>>))
  /\ pc' = "d3_loc" /\ cont' = "d3_upload" /\ retries' = 0
  /\ UNCHANGED <<modeArg, subResult, result>>
  /\ Frame
  /\ UNCHANGED <<clientVars, threadVars, stale, link, coop, auxVars, lastError, earlyAck>>

\* self.connection is None: self.connection.recv_match raises AttributeError
Deneme3_get_location_unconnected ==
  /\ pc = "d3_loc" /\ connection = "None"
  /\ lastError' = "exception" /\ Goto("raised")
  /\ Frame
  /\ UNCHANGED <<clientVars, threadVars, stale, link, coop, auxVars, vehicleVars, log, earlyAck>>

\* get_location: while True: msg = recv_match(type='GLOBAL_POSITION_INT', timeout=5);
\* if msg: return lat, lon.  In takeoff the upload follows at once: mission_clear_all_send,
\* mission_count_send(1), mission_item_send
Deneme3_get_location_recv ==
  /\ pc = "d3_loc" /\ connection # "None" /\ link # <<>>
  /\ link' = Tail(link)
  /\ IF Head(link).type # "GLOBAL_POSITION_INT"
       THEN Goto("d3_loc") /\ UNCHANGED <<log, vehicle>>
     ELSE IF cont = "none"
       THEN /\ log' = Append(log, Rx(Head(link)))
            /\ Return(TRUE) /\ UNCHANGED vehicle
     ELSE /\ Send(<<MISSION_CLEAR_ALL, MISSION_COUNT(1), Deneme3_TAKEOFF_ITEM(Head(link))>>)
          /\ pc' = "d3_armwait" /\ retries' = 0
          /\ UNCHANGED <<cont, modeArg, subResult, result>>
  /\ Frame
  /\ UNCHANGED <<clientVars, threadVars, stale, coop, auxVars, lastError, earlyAck>>

\* the five seconds pass with no position: msg is None, the loop goes round again
Deneme3_get_location_timeout ==
  /\ pc = "d3_loc" /\ connection # "None" /\ TimeoutOK("GLOBAL_POSITION_INT")
  /\ retries' = IF retries < MaxAttempts THEN retries + 1 ELSE retries
  /\ UNCHANGED <<pc, cont, modeArg, subResult, result>>
  /\ Frame
  /\ UNCHANGED <<clientVars, threadVars, stale, link, coop, auxVars, vehicleVars, lastError,
                 log, earlyAck>>

Deneme3_get_location ==
  \/ Deneme3_get_location_unconnected \/ Deneme3_get_location_recv
  \/ Deneme3_get_location_timeout

\* takeoff: while True: msg = recv_match(type='HEARTBEAT', timeout=5);
\* if msg.base_mode & ARMED: break.  Then self.set_mode('AUTO'); return True
Deneme3_takeoff_armwait_recv ==
  /\ pc = "d3_armwait" /\ link # <<>>
  /\ link' = Tail(link)
  /\ IF Head(link).type = "HEARTBEAT" /\ Head(link).b
       THEN /\ log' = Append(log, Rx(Head(link)))
                      \o [i \in 1..Len(Deneme3_Guarded(<<SET_MODE("AUTO")>>)) |->
                            Tx(SET_MODE("AUTO"))]
            /\ vehicle' = IF NotConnected THEN vehicle
                          ELSE VehicleGets(vehicle, SET_MODE("AUTO"))
            /\ Return(TRUE)
     ELSE IF Head(link).type = "HEARTBEAT"
       THEN /\ retries' = IF retries < MaxAttempts THEN retries + 1 ELSE retries
            /\ UNCHANGED <<pc, cont, modeArg, subResult, result, log, vehicle>>
     ELSE Goto("d3_armwait") /\ UNCHANGED <<log, vehicle>>
  /\ Frame
  /\ UNCHANGED <<clientVars, threadVars, stale, coop, auxVars, lastError, earlyAck>>

\* the five seconds pass with no heartbeat: msg is None and msg.base_mode raises
Deneme3_takeoff_armwait_timeout ==
  /\ pc = "d3_armwait" /\ TimeoutOK("HEARTBEAT")
  /\ lastError' = "exception" /\ Goto("raised")
  /\ Frame
  /\ UNCHANGED <<clientVars, threadVars, stale, link, coop, auxVars, vehicleVars, log, earlyAck>>

Deneme3_takeoff ==
  \/ Deneme3_takeoff_enter \/ Deneme3_takeoff_armwait_recv \/ Deneme3_takeoff_armwait_timeout

NextDeneme3 ==
  \/ VehicleEmit
  \/ call_Deneme3_connect \/ Deneme3_connect
  \/ call_Deneme3_get_location \/ Deneme3_get_location
  \/ call_Deneme3_takeoff \/ Deneme3_takeoff

\* a step of the method the caller is in
Deneme3Step == Deneme3_connect \/ Deneme3_get_location \/ Deneme3_takeoff

\* the timeout of the receive the caller is in passes
Deneme3Deadline ==
  Deneme3_connect_timeout \/ Deneme3_get_location_timeout \/ Deneme3_takeoff_armwait_timeout

\* the caller's thread keeps running, and the clock does
SpecDeneme3 ==
  Init /\ [][NextDeneme3]_vars /\ WF_vars(Deneme3Step) /\ WF_vars(Deneme3Deadline)

\* the commands and the flight methods called on a client in any connection state
NextGuard ==
  \/ VehicleEmit \/ LinkDrops
  \/ call_connect \/ connect
  \/ call_disconnect \/ disconnect
  \/ call_arm_disarm \/ arm_disarm
  \/ call_set_mode \/ set_mode
  \/ call_autonomous_takeoff \/ autonomous_takeoff
  \/ call_autonomous_land \/ autonomous_land

SpecGuard == Init /\ [][NextGuard]_vars

----------------------------------------------------------------------------
(* UAVPlane.takeoff (flight_control/plane_controller.py) with a MAVLink client
   attached: self.mavlink_client is the client of this module *)

call_UAVPlane_takeoff ==
  /\ Enter("UAVPlane.takeoff", "pt_enter", "none")
  /\ UNCHANGED <<clientVars, threadVars, stale, link, coop, auxVars, vehicleVars>>

\* if not self._has_valid_connection(): return False (the plane's own connection
\* attribute may or may not be set); then _send_mavlink_command("takeoff"):
\* arm_disarm(True), and set_mode("GUIDED")
UAVPlane_takeoff_enter ==
  /\ pc = "pt_enter"
  /\ \E has_valid_connection \in BOOLEAN :
       IF ~has_valid_connection
         THEN /\ lastError' = "no valid connection" /\ Return(FALSE)
              /\ UNCHANGED <<log, vehicle>>
       ELSE IF NotConnected \/ broken   \* arm_disarm returned False
         THEN /\ lastError' = "arm" /\ Return(FALSE)
              /\ UNCHANGED <<log, vehicle>>
         ELSE /\ Send(<<ARM_DISARM(TRUE)>>)
              /\ CallSub("GUIDED", "pt_mode")
              /\ UNCHANGED lastError
  /\ Frame
  /\ UNCHANGED <<clientVars, threadVars, stale, link, coop, auxVars, earlyAck>>

\* if not set_mode("GUIDED"): return False; "MAVLink takeoff command would go here";
\* return True
UAVPlane_takeoff_return ==
  /\ pc = "pt_mode"
  /\ IF subResult THEN Return(TRUE) /\ UNCHANGED lastError
                  ELSE lastError' = "mode" /\ Return(FALSE)
  /\ Frame
  /\ UNCHANGED <<clientVars, threadVars, stale, link, coop, auxVars, vehicleVars, log, earlyAck>>

UAVPlane_takeoff == UAVPlane_takeoff_enter \/ UAVPlane_takeoff_return

NextPlane ==
  \/ VehicleEmit \/ telemetry_loop
  \/ call_UAVPlane_takeoff \/ UAVPlane_takeoff \/ set_mode
  \/ call_disconnect \/ disconnect

SpecPlane == InitConnected /\ [][NextPlane]_vars

\* well-formed and malformed telemetry against the loop
NextMalformed ==
  \/ PositionStream \/ MalformedStream
  \/ telemetry_loop
  \/ call_disconnect \/ disconnect
  \/ call_connect \/ connect

SpecMalformed == InitConnected /\ [][NextMalformed]_vars

\* every telemetry stream against the handlers, with initialize() in between
NextHandlers ==
  \/ PositionStream \/ OtherStreams
  \/ LoopCheck \/ LoopRecv \/ LoopHandle
  \/ call_initialize \/ initialize

SpecHandlers == InitConnected /\ [][NextHandlers]_vars

----------------------------------------------------------------------------
(* Reading the log of the running method *)

Idx == 1..Len(log)
Returned(o) == op = o /\ pc = "done"
Flying == op \in {"autonomous_takeoff", "autonomous_land"}

RxModeAt(i, mode) ==
  log[i].d = "rx" /\ log[i].m.type = "HEARTBEAT" /\ log[i].m.s = mode
RxArmedAt(i) ==
  log[i].d = "rx" /\ log[i].m.type = "HEARTBEAT" /\ log[i].m.b
MissionTxAt(i) ==
  log[i].d = "tx" /\ log[i].m.type \in {"MISSION_CLEAR_ALL", "MISSION_COUNT", "MISSION_ITEM_INT"}
ItemTxAt(i) == log[i].d = "tx" /\ log[i].m.type = "MISSION_ITEM_INT"

\* GUIDED was requested and then confirmed, before position i
GuidedConfirmedBefore(i) ==
  \E k \in 1..(i - 1) :
    log[k] = Tx(SET_MODE("GUIDED")) /\ \E j \in (k + 1)..(i - 1) : RxModeAt(j, "GUIDED")
\* the arm command was sent and then an armed heartbeat seen, before position i
ArmedSeenBefore(i) ==
  \E a \in 1..(i - 1) :
    log[a] = Tx(ARM_DISARM(TRUE)) /\ \E h \in (a + 1)..(i - 1) : RxArmedAt(h)
\* a position was obtained after the armed heartbeat, before position i
PositionBefore(i) ==
  \E q \in 1..(i - 1) :
    log[q] = Rx(GLOBAL_POSITION_INT) /\ \E h \in 1..(q - 1) : RxArmedAt(h)

\* the number of items of the mission the running method uploads
MissionSize == IF op = "autonomous_takeoff" THEN 1 ELSE 3

\* before position i: every item was requested, and after the last item an accepted ack came
UploadCompleteBefore(i) ==
  /\ \A k \in 0..(MissionSize - 1) :
       \E j \in Idx : j < i /\ log[j] = Rx(MISSION_REQUEST(k))
  /\ \E t \in 1..(i - 1) :
       /\ ItemTxAt(t) /\ log[t].m.n = MissionSize - 1
       /\ \E a \in (t + 1)..(i - 1) : log[a] = Rx(MISSION_ACK(MAV_MISSION_ACCEPTED))

----------------------------------------------------------------------------
(* C1: in autonomous_takeoff the arm command is sent only after GUIDED was confirmed;
   MISSION_CLEAR_ALL, MISSION_COUNT and the item only after an armed heartbeat and then
   a position were received, clear before count before item; AUTO is requested only
   after the item; a run that returns success went through all of it, and a run that
   stops at "mode", "arm" or "location" has sent nothing of a later step. *)
C1_TakeoffOrder ==
  op = "autonomous_takeoff" =>
    /\ \A i \in Idx :
         /\ log[i] = Tx(ARM_DISARM(TRUE)) => GuidedConfirmedBefore(i)
         /\ MissionTxAt(i) => ArmedSeenBefore(i) /\ PositionBefore(i)
         /\ log[i] = Tx(MISSION_COUNT(1)) => \E j \in Idx : j < i /\ log[j] = Tx(MISSION_CLEAR_ALL)
         /\ ItemTxAt(i) => \E j \in Idx : j < i /\ log[j] = Tx(MISSION_COUNT(1))
         /\ log[i] = Tx(SET_MODE("AUTO")) => \E j \in Idx : j < i /\ ItemTxAt(j)
    /\ pc = "done" /\ result => Has(Tx(SET_MODE("AUTO")))
    /\ pc = "done" /\ lastError = "mode" => ~result /\ SentTypes \subseteq {"SET_MODE"}
    /\ pc = "done" /\ lastError \in {"arm", "location"} =>
         ~result /\ SentTypes \subseteq {"SET_MODE", "COMMAND_LONG"}

\* a take-off that went through every step and returned success
C1_Witness == Returned("autonomous_takeoff") /\ result

(* C2: autonomous_takeoff and autonomous_land request AUTO only after the upload is
   complete: every item's MISSION_REQUEST received, and an accepted MISSION_ACK
   received after the last item. *)
C2_AutoOnlyAfterUpload ==
  Flying => \A i \in Idx : log[i] = Tx(SET_MODE("AUTO")) => UploadCompleteBefore(i)

\* a land that requested AUTO (the counterpart state the claim is about)
C2_Reached == op = "autonomous_land" /\ Has(Tx(SET_MODE("AUTO")))

----------------------------------------------------------------------------
(* The mission uploader's state in autonomous_takeoff, read off the code position:
   lines 460-539 are the upload, line 541 is reached exactly when it is Done *)
TakeoffUpload ==
  IF op # "autonomous_takeoff" THEN "Idle"
  ELSE IF pc = "tk_clearwait" THEN "Cleared"
  ELSE IF pc = "tk_reqwait" THEN "AwaitingItemRequest"
  ELSE IF pc = "tk_ackwait" THEN "AwaitingFinalAck"
  ELSE IF pc \in {"tk_auto", "tk_verify"} \/ cont = "tk_auto" THEN "Done"
  ELSE IF pc = "done" /\ lastError \in {"clear", "request", "ack"} THEN "Failed"
  ELSE IF pc = "done" /\ (result \/ lastError \in {"auto", "auto-verify"}) THEN "Done"
  ELSE "Idle"

\* after MISSION_COUNT(1): request 0 received, item 0 sent, accepted ack received, in order
UploadHandshake ==
  \E c \in Idx :
    /\ log[c] = Tx(MISSION_COUNT(1))
    /\ \E r \in c+1..Len(log) :
         /\ log[r] = Rx(MISSION_REQUEST(0))
         /\ \E t \in r+1..Len(log) :
              /\ log[t] = Tx(NAV_TAKEOFF_ITEM)
              /\ \E a \in t+1..Len(log) : log[a] = Rx(MISSION_ACK(MAV_MISSION_ACCEPTED))

(* C3: the 1-item upload of autonomous_takeoff is Done if and only if, after
   MISSION_COUNT(1) was sent, a MISSION_REQUEST for index 0 was received, then item 0
   sent, then an accepted MISSION_ACK received; a run that sent MISSION_COUNT(1) and
   returned without that handshake ended the upload in Failed. *)
C3_UploadDoneIff ==
  op = "autonomous_takeoff" =>
    /\ TakeoffUpload = "Done" <=> UploadHandshake
    /\ pc = "done" /\ Has(Tx(MISSION_COUNT(1))) /\ ~UploadHandshake => TakeoffUpload = "Failed"

\* the upload is Done although an acknowledgement came too early and was dropped
C3_Witness == TakeoffUpload = "Done" /\ earlyAck

(* C4: in the uploads of autonomous_takeoff and autonomous_land, mission item i is
   sent only after a MISSION_REQUEST with seq = i was received. *)
C4_ItemOnlyAfterRequest ==
  Flying => \A i \in Idx :
    ItemTxAt(i) => \E j \in Idx : j < i /\ log[j] = Rx(MISSION_REQUEST(log[i].m.n))

(* C5: a take-off or landing returns success only if, after its last mission item
   was sent, a MISSION_ACK with status ACCEPTED was received; with no ack, or an ack
   of another status, it returns failure. *)
C5_SuccessNeedsAcceptedAck ==
  Flying /\ pc = "done" /\ result =>
    \E t, a \in Idx :
      /\ t < a /\ ItemTxAt(t) /\ log[t].m.n = MissionSize - 1
      /\ log[a] = Rx(MISSION_ACK(MAV_MISSION_ACCEPTED))

(* C6: on a link that confirms GUIDED, reports armed, reports a position, requests
   item 0, accepts the mission and reports AUTO, autonomous_takeoff returns success,
   the telemetry loop running on the same connection. *)
C6_TakeoffSucceedsOnAnsweringLink ==
  coop /\ connected /\ Returned("autonomous_takeoff") => result

----------------------------------------------------------------------------
GuidedConfirmed == GuidedConfirmedBefore(Len(log) + 1)
ArmedSeen       == ArmedSeenBefore(Len(log) + 1)
\* heartbeats in AUTO received after AUTO was requested
AutoSeen ==
  Cardinality({i \in Idx : RxModeAt(i, "AUTO")
                           /\ \E j \in Idx : j < i /\ log[j] = Tx(SET_MODE("AUTO"))})

(* C7 as claimed: two runs that fail at different steps return distinguishable
   results.  The run before failed at "mode" and returned False; this one failed at
   a later step, so what it returns must differ from False. *)
C7_FailuresDistinguishable ==
  Returned("autonomous_takeoff") /\ prevCall = "takeoff-mode" /\ lastError \notin {"none", "mode"}
    => result # FALSE

(* C7 as amended: autonomous_takeoff and autonomous_land return a bare boolean, True
   exactly when no step failed and False for every failure; the step that failed is
   named by the logged error only: "mode" when GUIDED is not confirmed, "arm" when no
   armed heartbeat follows the arm command, "location" when no position is obtained,
   "auto-verify" when AUTO was confirmed by set_mode but not verified afterwards. *)
C7_BareBoolean ==
  Flying /\ pc = "done" =>
    /\ result \in BOOLEAN
    /\ result <=> lastError = "none"
    /\ op = "autonomous_takeoff" =>
         /\ lastError = "mode" => ~GuidedConfirmed
         /\ lastError = "arm" => GuidedConfirmed /\ ~ArmedSeen
         /\ lastError = "location" => ArmedSeen /\ ~Has(Rx(GLOBAL_POSITION_INT))
         /\ lastError = "auto-verify" => AutoSeen = 1
         /\ result => AutoSeen = 2

\* two take-offs in a row, failed at "mode" and at "arm", both returning False
C7_Witness ==
  Returned("autonomous_takeoff") /\ prevCall = "takeoff-mode" /\ lastError = "arm" /\ ~result

----------------------------------------------------------------------------
(* C8 as claimed: emergency_stop() issues the RTL mode-set request in every client
   state, also when the connected flag is false. *)
C8_AlwaysRequestsRTL ==
  Returned("emergency_stop") => Has(Tx(SET_MODE("RTL")))

(* C8 as amended: when the connected flag is true and the transport handle present,
   emergency_stop() calls set_mode("RTL"), which sends the RTL request, whatever the
   age of the last heartbeat and the content of the store, and it returns what
   set_mode returns (True exactly when a heartbeat in RTL confirmed the request);
   when the flag is false or the handle absent it sends nothing and returns False. *)
C8_RequestsRTLWhenConnected ==
  Returned("emergency_stop") =>
    /\ Has(Tx(SET_MODE("RTL"))) <=> ~NotConnected
    /\ result <=> \E i \in Idx : RxModeAt(i, "RTL")
    /\ SentTypes \subseteq {"SET_MODE"}

\* an emergency stop that went through with a stale heartbeat and an untouched store
C8_Witness ==
  /\ Returned("emergency_stop") /\ result
  /\ stale /\ telemetry_data = reset_telemetry_data

----------------------------------------------------------------------------
(* C9: disconnect() directly after disconnect(): the second call returns normally,
   closes nothing, joins no thread, and leaves connected = false, running = false and
   the handle absent. *)
C9_SecondDisconnectIsNoOp ==
  Returned("disconnect") /\ prevCall = "disconnect" =>
    /\ result
    /\ log = <<>>
    /\ ~connected /\ ~running /\ connection = "None"

(* C10: the telemetry loop never polls a transport that disconnect() has closed and
   never dereferences a handle that disconnect() has cleared. *)
C10_NoUseAfterClose == loopFault = "none"

----------------------------------------------------------------------------
\* transports this client opened and nobody closed
OpenTransports == (IF connection = "open" THEN 1 ELSE 0) + orphans

\* the running method returns in this step
Returns(o) == op' = o /\ pc # "done" /\ pc' = "done"

(* C11: after any sequence of connect() and disconnect() calls at most one transport
   opened by the client is open and not yet closed. *)
C11_AtMostOneTransport == OpenTransports <= 1

(* C12: connect() ends in one of two ways: a heartbeat was observed, it returns True,
   connected is true and system_id / component_id are the source ids of that heartbeat;
   or no heartbeat was observed, it returns False, connected is false and the call has
   started no telemetry thread. *)
C12_ConnectOutcomes ==
  [][Returns("connect") =>
       \/ /\ result' /\ connected'
          /\ Len(log') = 1 /\ log'[1].d = "rx" /\ log'[1].m.type = "HEARTBEAT"
          /\ system_id' = get_srcSystem(log'[1].m)
          /\ component_id' = get_srcComponent(log'[1].m)
       \/ /\ ~result' /\ ~connected'
          /\ log' = <<>>
          /\ tpc' = tpc]_vars

\* a connect that succeeded on the heartbeat of system 2, after an earlier connect
C12_Witness ==
  Returned("connect") /\ result /\ system_id = 2 /\ orphans > 0

----------------------------------------------------------------------------
\* the telemetry thread is alive and its loop condition holds
LoopServing == ThreadAlive /\ running /\ connected

(* C13: from the moment a connect() returns success until the next disconnect() is
   called, the telemetry loop is running and goes on polling: every successful connect
   leaves it so, and no step other than one of disconnect() ends it. *)
C13_LoopRunsWhileConnected ==
  [][/\ Returns("connect") /\ result' => LoopServing'
     /\ LoopServing /\ op' # "disconnect" => LoopServing']_vars

----------------------------------------------------------------------------
(* C16: set_mode(name) returns True only if, after it sent the mode-set request, it
   received a HEARTBEAT that reports the mode name; otherwise it returns False. *)
C16_SetModeTrueOnlyIfConfirmed ==
  Returned("set_mode") =>
    (result <=> \E i \in Idx :
                  /\ log[i].d = "tx" /\ log[i].m.type = "SET_MODE"
                  /\ \E j \in (i + 1)..Len(log) : RxModeAt(j, log[i].m.s))

\* set_mode sent its request and returned False: no heartbeat confirmed the mode
C16_Witness ==
  Returned("set_mode") /\ ~result /\ Has(Tx(SET_MODE("AUTO"))) /\ stale

\* set_mode returned True on a confirming heartbeat
C16_Confirmed ==
  Returned("set_mode") /\ result /\ Has(Tx(SET_MODE("AUTO")))

----------------------------------------------------------------------------
(* C14: while connected, every message of a type that has a handler leaves the link
   through the telemetry loop, which applies it to telemetry_data; no method running
   on the caller's thread pulls or drops one. *)
C14_TelemetryOnlyThroughLoop ==
  [][(connected /\ op # "connect"
        /\ Len(link') < Len(link) /\ Head(link).type \in HandlerTypes)
       => /\ tpc = "poll"
          /\ pc' = pc
          /\ telemetry_data' = process_message(telemetry_data, Head(link))]_vars

----------------------------------------------------------------------------
(* Reading the store *)

AllFields == DOMAIN reset_telemetry_data

\* the fields each message type is said to own
Owned(type) ==
  CASE type = "HEARTBEAT" -> {"armed", "flight_mode", "system_status", "last_heartbeat"}
    [] type = "ATTITUDE" -> {"roll", "pitch", "yaw"}
    [] type = "GLOBAL_POSITION_INT" -> {"lat", "lon", "altitude", "heading"}
    [] type = "VFR_HUD" -> {"airspeed", "groundspeed", "throttle"}
    [] type = "SYS_STATUS" -> {"battery_level", "battery_voltage"}
    [] type = "GPS_RAW_INT" -> {"gps_fix", "satellites"}
    [] OTHER -> {}

Changed(td1, td2) == {f \in AllFields : td1[f] # td2[f]}

\* this step is one of the telemetry thread
LoopStep == tpc' # tpc \/ tstep' # tstep

\* the message the telemetry thread is about to pull, or is processing
LoopMsg ==
  IF tpc = "handle" THEN tmsg
  ELSE IF tpc = "poll" /\ link # <<>> THEN Head(link)
  ELSE NoMsg

\* every message a vehicle of the model sends
AllMsgs == VehicleMsgs \cup ForeignMsgs \cup PositionMsgs \cup StreamMsgs

\* the fields of td owned by `type` are the defaults, or all come from one message
FromOneMessage(td, type) ==
  \/ \A f \in Owned(type) : td[f] = reset_telemetry_data[f]
  \/ \E m \in AllMsgs :
       /\ m.type = type
       /\ \A f \in Owned(type) \ {"last_heartbeat"} : td[f] = FieldValue(m, f)

----------------------------------------------------------------------------
(* C17: a transport fault never escapes as an exception from set_mode,
   autonomous_takeoff, autonomous_land, emergency_stop or disconnect (nor from the
   sends of send_command_long and arm_disarm they make): no method is left by an
   exception, and a call in which a send or the close raised returns False. *)
C17_NoFaultEscapes ==
  /\ pc # "raised"
  /\ pc = "done" /\ lastError = "exception" => broken /\ ~result

C17_Witness ==
  Returned("autonomous_land") /\ broken /\ lastError = "exception" /\ ~result

C17_WitnessClose ==
  Returned("disconnect") /\ broken /\ lastError = "exception" /\ connection = "open"

(* C15: every call of connect, set_mode, get_current_altitude, autonomous_takeoff
   (get_location included), autonomous_land or emergency_stop returns, whatever the
   link delivers, withholds or drops. *)
C15_EveryCallReturns == (pc # "done") ~> (pc = "done")

C15_Witness ==
  /\ Returned("autonomous_takeoff") /\ lastError = "location" /\ link # <<>>
  /\ Head(link).type # "GLOBAL_POSITION_INT"

(* C18 as claimed: after construction the store is modified only by the handlers of
   the telemetry loop; no operation on the caller's thread changes or replaces a
   field of it. *)
C18_StoreOnlyByLoop ==
  [][telemetry_data' # telemetry_data => LoopStep]_vars

(* C18 as amended: the store is modified only by the handlers of the telemetry loop
   and by initialize(), which replaces it by the defaults; no other operation on the
   caller's thread changes or replaces a field of it. *)
C18_StoreByLoopOrInitialize ==
  [][telemetry_data' # telemetry_data
       => \/ LoopStep
          \/ /\ op = "initialize" /\ pc = "in_enter"
             /\ telemetry_data' = reset_telemetry_data]_vars

\* initialize() replaced the store while a handler was half-way through a message,
\* and a stop() before it had left what the handlers had written
C18_Witness ==
  /\ Returned("initialize") /\ prevCall = "other"
  /\ tpc = "handle" /\ tstep = 3 /\ telemetry_data = reset_telemetry_data

----------------------------------------------------------------------------
(* C19: a record returned by get_telemetry_data() never reflects part of a message:
   for every message type the fields its handler owns all come from one message. *)
C19_SnapshotNeverTorn ==
  \A type \in HandlerTypes : FromOneMessage(snapshot, type)

----------------------------------------------------------------------------
(* C20: a step of a handler changes only fields its message type owns: HEARTBEAT only
   armed/flight_mode/system_status/last_heartbeat, ATTITUDE only roll/pitch/yaw,
   GLOBAL_POSITION_INT only lat/lon/altitude/heading, VFR_HUD only
   airspeed/groundspeed/throttle, SYS_STATUS only battery_level/battery_voltage,
   GPS_RAW_INT only gps_fix/satellites; a message of another type changes nothing. *)
C20_HandlersOwnFields ==
  [][LoopStep => Changed(telemetry_data, telemetry_data') \subseteq Owned(LoopMsg.type)]_vars

\* _handle_vfr_hud at work on a store that the position handler has filled
C20_Witness ==
  /\ tpc = "handle" /\ tmsg.type = "VFR_HUD" /\ tstep = 3
  /\ telemetry_data.airspeed = 1 /\ telemetry_data.throttle = 0
  /\ telemetry_data.altitude = 1

(* C21: once the telemetry loop has processed a HEARTBEAT (the store then shows the
   mode it reported), the store's last_heartbeat field holds its receipt time and is
   no longer the default 0. *)
C21_LastHeartbeatStored ==
  telemetry_data.flight_mode # "UNKNOWN" => telemetry_data.last_heartbeat # 0

\* the telemetry thread finishes processing a message in this step
Processed == tpc = "handle" /\ tpc' = "check"

(* C22: every field group of the store holds its defaults until the first message of
   its type has been processed, and afterwards the values decoded from the message of
   that type processed last (for last_heartbeat: a receipt time, not 0): the store
   starts at the defaults, the fields of a group change only while a message of its
   type is processed, and when that is done they are the values of that message. *)
C22_DefaultsThenLatest ==
  /\ telemetry_data = reset_telemetry_data
  /\ [][/\ \A type \in HandlerTypes :
            Changed(telemetry_data, telemetry_data') \cap Owned(type) # {}
              => LoopStep /\ LoopMsg.type = type
        /\ Processed /\ tmsg.type \in HandlerTypes
             => \A f \in Owned(tmsg.type) :
                  IF f = "last_heartbeat" THEN telemetry_data'[f] # 0
                  ELSE telemetry_data'[f] = FieldValue(tmsg, f)]_vars

(* C23: processing is idempotent: for every message of the six handled types and the
   store as it is, processing the message twice in a row gives the store that
   processing it once gives. *)
C23_ProcessingIdempotent ==
  \A m \in AllMsgs :
    m.type \in HandlerTypes
      => process_message(process_message(telemetry_data, m), m)
           = process_message(telemetry_data, m)

\* the loop starts on an ATTITUDE message equal to the one the store already shows
C23_Witness ==
  /\ tpc = "handle" /\ tmsg = Telemetry("ATTITUDE", 1) /\ tstep = 1
  /\ telemetry_data.roll = 1 /\ telemetry_data.pitch = 1 /\ telemetry_data.yaw = 1

(* C24: when the loop's while test finds running or connected false, the loop ends
   there: it polls the link no more and touches the store no more (a later
   successful connect() starts a new thread); and an iteration never waits for a
   message, the poll returns whether or not one is queued. *)
C24_LoopStopsOnFlag ==
  /\ [](tpc = "poll" => ENABLED LoopPoll)
  /\ [][/\ tpc = "check" /\ ~(running /\ connected) /\ tpc' # tpc => tpc' = "dead"
        /\ tpc = "dead"
             => /\ tpc' \in {"dead", "check"}
                /\ tpc' = "check" => pc = "cn_wait" /\ connected'
                /\ tpc' = "dead" => UNCHANGED <<telemetry_data, loopFault>>]_vars

\* disconnect() has returned and the loop has ended, with a message left on the link
C24_Witness ==
  Returned("disconnect") /\ tpc = "dead" /\ ~running /\ link # <<>>

(* C25: arm_disarm(arm) is one step: it sends exactly one COMMAND_LONG,
   COMPONENT_ARM_DISARM with param1 = 1 for arm and 0 for disarm, and returns True,
   or the send fails (not connected, or it raises), nothing is sent and it returns
   False; it takes nothing from the link and does not write the store, whatever the
   vehicle reports. *)
C25_ArmDisarmSendsOnce ==
  [][pc = "ad_enter" /\ pc' # pc
       => /\ pc' = "done"
          /\ link' = link /\ telemetry_data' = telemetry_data
          /\ \/ result' /\ log' = <<Tx(ARM_DISARM(modeArg = "arm"))>>
             \/ ~result' /\ log' = <<>> /\ (NotConnected \/ broken)]_vars

\* arm_disarm(True) returned True and the store still shows a disarmed vehicle
C25_Witness ==
  /\ Returned("arm_disarm") /\ result /\ log = <<Tx(ARM_DISARM(TRUE))>>
  /\ ~telemetry_data.armed /\ telemetry_data.flight_mode # "UNKNOWN"

\* the number of mission items sent before log[i]
ItemsBefore(i) == Cardinality({j \in 1..(i - 1) : ItemTxAt(j)})

\* the value of the last MISSION_COUNT sent before log[i], -1 if none
CountBefore(i) ==
  LET cs == {c \in 1..(i - 1) : log[c].d = "tx" /\ log[c].m.type = "MISSION_COUNT"}
  IN  IF cs = {} THEN -1
      ELSE log[CHOOSE c \in cs : \A d \in cs : d <= c].m.n

(* C26: in the missions of autonomous_takeoff and autonomous_land the items go out
   with the sequence numbers 0, 1, ... in order, below the announced MISSION_COUNT,
   item 0 with current = 1 and every other with current = 0; when AUTO is requested
   the number of items sent equals the MISSION_COUNT value (1 and 3); takeoff's item
   is NAV_TAKEOFF at the target altitude, and landing's are NAV_TAKEOFF at
   current_alt, NAV_WAYPOINT at cruise_alt away from the landing point, NAV_LAND at
   the landing point. *)
C26_MissionShape ==
  Flying =>
    \A i \in Idx :
      /\ ItemTxAt(i) =>
           /\ log[i].m.n = ItemsBefore(i)
           /\ log[i].m.n < CountBefore(i)
           /\ log[i].m.b = (log[i].m.n = 0)
           /\ op = "autonomous_takeoff" =>
                log[i].m.s = "NAV_TAKEOFF" /\ log[i].m.z = TakeoffAlt
           /\ op = "autonomous_land" /\ log[i].m.n = 0 =>
                log[i].m.s = "NAV_TAKEOFF" /\ log[i].m.z = CurrentAlt
           /\ op = "autonomous_land" /\ log[i].m.n = 1 =>
                /\ log[i].m.s = "NAV_WAYPOINT" /\ log[i].m.z = CruiseAlt
                /\ <<log[i].m.x, log[i].m.y>> # <<LandLat * 1000, LandLon * 1000>>
           /\ op = "autonomous_land" /\ log[i].m.n = 2 =>
                /\ log[i].m.s = "NAV_LAND"
                /\ <<log[i].m.x, log[i].m.y>> = <<LandLat * 1000, LandLon * 1000>>
      /\ log[i] = Tx(SET_MODE("AUTO")) =>
           /\ ItemsBefore(i) = CountBefore(i)
           /\ ItemsBefore(i) = IF op = "autonomous_land" THEN 3 ELSE 1

\* both uploads went through to the AUTO request
C26_Witness ==
  /\ Returned("autonomous_land") /\ result
  /\ Cardinality({i \in Idx : ItemTxAt(i)}) = 3

C26_WitnessTakeoff ==
  Returned("autonomous_takeoff") /\ result /\ Has(Tx(NAV_TAKEOFF_ITEM))

(* C27: the record get_telemetry_data() returns is a copy: a write to the returned
   record never changes the store, and the handlers' writes to the store never change
   a record already returned. *)
C27_SnapshotIsCopy ==
  [][/\ LoopStep => snapshot' = snapshot
     /\ snapshot' # snapshot => telemetry_data' = telemetry_data]_vars

\* the holder changed its record, and a message processed later changed the store
C27_Witness ==
  /\ op = "get_telemetry_data" /\ snapshot.armable /\ ~telemetry_data.armable
  /\ snapshot.lat = 0 /\ telemetry_data.lat = 1

(* C28: the telemetry loop does not react to missing heartbeats: however overdue the
   heartbeat is, a step of the loop leaves the connected and running flags alone, goes
   on to the next poll while both are set, resets no field of the store (a field
   changes only to the value of the message being processed), and last_heartbeat
   changes only when a HEARTBEAT is processed, and then not backwards. *)
C28_LoopIgnoresSilence ==
  [][ThreadAlive /\ tpc' # tpc
       => /\ connected' = connected /\ running' = running
          /\ tpc = "check" /\ running /\ connected => tpc' = "poll"
          /\ Changed(telemetry_data, telemetry_data') \subseteq Owned(LoopMsg.type)
          /\ telemetry_data'.last_heartbeat >= telemetry_data.last_heartbeat
          /\ stale' # stale => ~stale' /\ LoopMsg.type = "HEARTBEAT"]_vars

\* the heartbeat is overdue, and the loop is at its next poll with the store intact
C28_Witness ==
  /\ stale /\ LoopServing /\ tpc = "poll"
  /\ telemetry_data.flight_mode = "AUTO" /\ telemetry_data.armed
  /\ link # <<>> /\ Head(link).type = "GLOBAL_POSITION_INT"

(* C29: update(position) returns the current target while waypoints remain and
   advances the index by one exactly when the distance to that target is within the
   threshold or greater than the distance of the previous sample; the index never
   decreases; once it is past the last waypoint every update returns null. *)
C29_NavigatorAdvances ==
  [][nav' # nav =>
       LET i == nav.index
           d == Dist2(nav'.pos, Waypoints[i])
       IN  /\ nav'.index \in {i, i + 1}
           /\ i <= Len(Waypoints) =>
                /\ nav'.ret = i
                /\ nav'.index = i + 1
                     <=> (d <= Threshold * Threshold \/ (nav.prev # -1 /\ d > nav.prev))
           /\ i > Len(Waypoints) => nav'.ret = 0 /\ nav'.index = i]_vars

\* all waypoints consumed, the last update answered null
C29_Witness == nav.index = Len(Waypoints) + 1 /\ nav.ret = 0 /\ nav.prev > Threshold * Threshold

\* autonomous_takeoff takes an accepted MISSION_ACK as the end of the upload
TakesFinalAck == pc = "tk_ackwait" /\ pc' = "sm_enter"

(* C30: the MISSION_ACK that autonomous_takeoff counts as acceptance of the upload
   was sent by the vehicle after it received item 0: when the call takes it, the
   vehicle's answer to item 0 is not still waiting to be sent (the ack taken is not
   the late answer to MISSION_CLEAR_ALL). *)
C30_FinalAckAnswersItem ==
  [][TakesFinalAck =>
       \A i \in 1..Len(vehicle.pend) : vehicle.pend[i].type # "MISSION_ACK"]_vars

----------------------------------------------------------------------------
(* C31: a message whose handler fails part-way leaves the store exactly as it was
   before the message: when the loop has pulled and processed a malformed message,
   no field of the store has changed. *)
C31_FailedMessageLeavesStore ==
  [][(tpc = "poll" /\ tpc' = "check" /\ link # <<>> /\ link' = Tail(link)
        /\ Head(link) \in MalformedMsgs)
       => telemetry_data' = telemetry_data]_vars

----------------------------------------------------------------------------
\* the verification loop of autonomous_takeoff pulls a HEARTBEAT that reports AUTO
VerifyPullsAuto ==
  link # <<>> /\ link' = Tail(link)
    /\ Head(link).type = "HEARTBEAT" /\ Head(link).s = "AUTO"

(* C32: autonomous_takeoff returns success only if, after set_mode("AUTO") returned
   true (AUTO requested and confirmed by a heartbeat), a further HEARTBEAT reporting
   AUTO was received within at most 10 verification attempts; when the tenth attempt
   yields none it returns failure. *)
C32_SuccessNeedsVerifiedAuto ==
  /\ [](Returned("autonomous_takeoff") /\ result =>
         \E i, j, k \in Idx :
           /\ i < j /\ j < k
           /\ log[i] = Tx(SET_MODE("AUTO")) /\ RxModeAt(j, "AUTO") /\ RxModeAt(k, "AUTO"))
  /\ [](pc = "tk_verify" => subResult /\ retries \in 0..(VerifyAttempts - 1))
  /\ [][pc = "tk_verify" =>
         /\ (pc' = "done" /\ result') => VerifyPullsAuto
         /\ (pc' = "done" /\ ~result') =>
               retries = VerifyAttempts - 1 /\ ~VerifyPullsAuto /\ lastError' = "auto-verify"
         /\ pc' \in {"tk_verify", "done"}
         /\ (pc' = "tk_verify" /\ retries = VerifyAttempts - 1) => retries' = retries]_vars

\* a take-off verified by a second AUTO heartbeat
C32_Witness ==
  /\ Returned("autonomous_takeoff") /\ result
  /\ \E j, k \in Idx : j < k /\ RxModeAt(j, "AUTO") /\ RxModeAt(k, "AUTO")

\* a take-off that used up its ten attempts
C32_WitnessExhausted ==
  Returned("autonomous_takeoff") /\ ~result /\ lastError = "auto-verify"

----------------------------------------------------------------------------
\* get_location's recv_match pulls a position message
LocationPulled ==
  link # <<>> /\ link' = Tail(link) /\ Head(link).type = "GLOBAL_POSITION_INT"

(* C33: get_location makes at most 10 receive attempts; the first position message
   it receives ends it and is the one whose lat/lon the take-off item carries; it
   gives None exactly when the tenth attempt has yielded nothing, and
   autonomous_takeoff then returns failure having sent no mission message. *)
C33_LocationWithinTenAttempts ==
  /\ [](pc = "tk_loc" => retries \in 0..(MaxRetries - 1))
  /\ [](op = "autonomous_takeoff" =>
         /\ \A i \in Idx : ItemTxAt(i) =>
              \E q \in 1..(i - 1) :
                /\ log[q].d = "rx" /\ log[q].m.type = "GLOBAL_POSITION_INT"
                /\ log[i].m.x = Wire(log[q].m, "lat") /\ log[i].m.y = Wire(log[q].m, "lon")
                /\ \A r \in Idx : (log[r].d = "rx" /\ log[r].m.type = "GLOBAL_POSITION_INT")
                                     => r = q
         /\ (pc = "done" /\ lastError = "location") =>
              ~result /\ SentTypes \subseteq {"SET_MODE", "COMMAND_LONG"})
  /\ [][(pc = "tk_loc" /\ (pc' # pc \/ retries' # retries \/ Len(link') < Len(link))) =>
         /\ LocationPulled =>
               pc' = "tk_clearwait" /\ log' = log \o <<Rx(Head(link)), Tx(MISSION_CLEAR_ALL)>>
         /\ ~LocationPulled =>
               /\ log' = log
               /\ \/ pc' = "tk_loc" /\ retries' = retries /\ Len(link') < Len(link)
                  \/ /\ pc' = "tk_loc" /\ retries' = retries + 1 /\ link' = link
                     /\ retries < MaxRetries - 1
                  \/ /\ pc' = "done" /\ ~result' /\ lastError' = "location"
                     /\ retries = MaxRetries - 1 /\ link' = link]_vars

\* a take-off whose item carries a position other than the origin
C33_Witness ==
  /\ op = "autonomous_takeoff"
  /\ \E i \in Idx : ItemTxAt(i) /\ log[i].m.x = Wire(Telemetry("GLOBAL_POSITION_INT", 1), "lat")

\* a take-off that gave up for want of a position
C33_WitnessNone ==
  Returned("autonomous_takeoff") /\ lastError = "location" /\ Has(Tx(ARM_DISARM(TRUE)))

----------------------------------------------------------------------------
(* C34: set_mode(name) with a name that is not in the link's mode table returns
   False without sending a mode-set request and without reading any message from
   the link: the call's first step is its return, with nothing sent, nothing pulled
   and the vehicle untouched. *)
C34_UnknownModeRejected ==
  /\ []((op = "set_mode" /\ modeArg \notin mode_mapping \cup {"none"}) =>
         pc = "sm_enter" /\ log = <<>>)
  /\ [][(op = "set_mode" /\ modeArg \notin mode_mapping /\ pc = "sm_enter" /\ pc' # pc) =>
         /\ pc' = "done" /\ ~result'
         /\ log' = <<>> /\ link' = link /\ vehicle' = vehicle
         /\ telemetry_data' = telemetry_data]_vars

\* set_mode on an open connection returned False having sent nothing: the name was unknown
C34_Witness ==
  /\ Returned("set_mode") /\ ~result /\ log = <<>>
  /\ connected /\ connection = "open" /\ ~broken

----------------------------------------------------------------------------
\* a call of the older client's get_location or takeoff is running
Deneme3Waiting == op \in {"Deneme3.get_location", "Deneme3.takeoff"} /\ pc # "done"

(* C35: in the older client, takeoff(altitude) and get_location() return or fail
   after a bounded number of receive attempts when the link never delivers a
   GLOBAL_POSITION_INT or never reports the armed flag: no receive that times out
   with no message makes them raise, and every call of them returns. *)
C35_OlderClientWaitsEnd ==
  /\ [][(Deneme3Waiting /\ connection # "None") => pc' # "raised"]_vars
  /\ (Deneme3Waiting ~> pc = "done")

----------------------------------------------------------------------------
\* the caller stands at the connection guard of a command or flight method
AtGuard ==
  /\ op \in {"arm_disarm", "set_mode", "autonomous_takeoff", "autonomous_land"}
  /\ pc \in {"ad_enter", "sm_enter", "tk_enter", "ld_enter"} /\ cont = "none"

(* C36: when the client is not connected (flag false or no transport handle),
   send_command_long / arm_disarm, set_mode, autonomous_takeoff and autonomous_land
   return False in their first step: nothing is sent, nothing is pulled from the
   link, and the client's flags and the store are as they were. *)
C36_NotConnectedIsRefused ==
  [][(AtGuard /\ NotConnected /\ pc' # pc) =>
       /\ pc' = "done" /\ ~result'
       /\ log' = <<>> /\ link' = link /\ vehicle' = vehicle
       /\ <<connected, running, connection, orphans>>' = <<connected, running, connection, orphans>>
       /\ telemetry_data' = telemetry_data]_vars

\* a landing refused on a client whose connect() had failed with the transport open
C36_Witness ==
  /\ Returned("autonomous_land") /\ ~result /\ lastError = "not connected" /\ log = <<>>
  /\ connection = "open" /\ ~connected

----------------------------------------------------------------------------
(* C37: at every reachable state, under every interleaving of connect, disconnect,
   stop and the ingestion loop, at most one telemetry ingestion thread of the client
   is alive, and it is the one self.telemetry_thread names. *)
C37_AtMostOneThread ==
  alive = IF ThreadAlive THEN 1 ELSE 0

\* connect() succeeded again while the thread of the connection before, which outlived
\* disconnect()'s join, was still alive: start_telemetry_thread started no second one
C37_Witness ==
  Returned("connect") /\ result /\ prevCall = "disconnect" /\ ThreadAlive /\ ~running

----------------------------------------------------------------------------
(* C38: at every reachable state, under every interleaving of connect and
   disconnect, is_connected = true implies that the transport handle is present
   and has not been closed. *)
C38_ConnectedHasOpenTransport ==
  connected => connection = "open"

\* disconnect() of a connected client between close() and self.connection = None
C38_Witness ==
  op = "disconnect" /\ pc = "dc_clear" /\ connection = "closed" /\ ~connected
    /\ Has(Sys("close"))

----------------------------------------------------------------------------
(* C39: UAVPlane.takeoff(altitude), with a MAVLink client attached, returns true only
   if a take-off command or a take-off mission item for that altitude has been sent
   to the vehicle during the call. *)
C39_PlaneTakeoffSendsTakeoff ==
  (Returned("UAVPlane.takeoff") /\ result) =>
    \E i \in Idx :
      /\ log[i].d = "tx"
      /\ \/ log[i].m = NAV_TAKEOFF_CMD(TakeoffAlt)
         \/ /\ log[i].m.type \in {"MISSION_ITEM_INT", "MISSION_ITEM"}
            /\ log[i].m.s = "NAV_TAKEOFF" /\ log[i].m.z = TakeoffAlt

====
